---- MODULE Spec2Model ----
(***************************************************************************)
(* WoolfOTDocument (woolf-ot-document.js, the second class of              *)
(* src/unnamed/part_008): the collaborative document engine of WareWoolf.  *)
(* One action per public method; a call that throws is a step that only    *)
(* records the error in ret (plus whatever the method changed before the   *)
(* throw).  Date.now() is the variable now; setTimeout callbacks are the    *)
(* set timers.  Wall-clock fields that no operation reads back (timestamp, *)
(* createdAt, acceptedAt, ...) are left out of the records.                *)
(* The control bus (WoolfDirectorBridge and WoolfWorkerBridge of           *)
(* src/unnamed/part_009) is modelled next to the document, with the        *)
(* postMessage channel between the two frames as sets of envelopes.        *)
(***************************************************************************)
EXTENDS Integers, Sequences, FiniteSets, TLC

VARIABLES
  quill,               \* this.quill: the text held by the editor, a sequence of characters
  version,             \* this.version
  changeLog,           \* this.changeLog
  rangeLocks,          \* this.rangeLocks, a Map: entries in insertion order
  lockCounter,         \* this.lockCounter
  timers,              \* pending setTimeout callbacks of lockRange
  now,                 \* Date.now()
  suggestions,         \* this.suggestions, a Map: entries in insertion order
  suggestionCounter,   \* this.suggestionCounter
  currentTransaction,  \* this.currentTransaction
  beginQuill,          \* history: the editor text when the open transaction began
  corrections,         \* this.corrections, a Map: entries in insertion order
  correctionCounter,   \* this.correctionCounter
  requestCounter,      \* WoolfDirectorBridge.requestCounter
  pendingRequests,     \* WoolfDirectorBridge.pendingRequests: the requestIds that have handlers
  futures,             \* the promises returned by run, in the order of the calls
  busTimers,           \* pending setTimeout callbacks of run
  toWorker,            \* request envelopes posted to the worker frame, not yet handled
  toDirector,          \* response envelopes posted to the director frame, not yet handled
  listening,           \* the director's message listener is registered
  changeSubscribers,   \* this.changeSubscribers, a Map: entries in insertion order
  subscriberCounter,   \* this.subscriberCounter
  delivered,           \* history: the calls of subscriber callbacks, in the order made
  eventStreams,        \* WoolfWorkerBridgeStream.eventStreams, a Map: entries in insertion order
  streamIdCounter,     \* WoolfWorkerBridgeStream.streamIdCounter
  director,            \* the WoolfDirectorBridgeStream: its fields, promises, timeouts and envelopes in flight
  posted,              \* the events posted to the windows of the streams, in the order posted
  annotations,         \* this.annotations, a Map: entries in insertion order
  annotationCounter,   \* this.annotationCounter
  ret                  \* the outcome of the last call: what it returned or threw

vars == <<quill, version, changeLog, rangeLocks, lockCounter, timers, now,
          suggestions, suggestionCounter, currentTransaction, beginQuill,
          corrections, correctionCounter, requestCounter, pendingRequests,
          futures, busTimers, toWorker, toDirector, listening,
          changeSubscribers, subscriberCounter, delivered,
          eventStreams, streamIdCounter, director, posted, annotations, annotationCounter,
          ret>>

docVars == <<quill, version, changeLog>>
lockVars == <<rangeLocks, lockCounter, timers>>
suggVars == <<suggestions, suggestionCounter>>
txnVars == <<currentTransaction, beginQuill>>
corrVars == <<corrections, correctionCounter>>
busVars == <<requestCounter, pendingRequests, futures, busTimers, toWorker, toDirector,
             listening>>
subVars == <<changeSubscribers, subscriberCounter>>
streamVars == <<eventStreams, streamIdCounter, director>>
annVars == <<annotations, annotationCounter>>
outVars == <<delivered, posted>>

----------------------------------------------------------------------------
(* Bounds of the model *)

MaxVersion == 2        \* mutations are explored up to this version
MaxLocks == 2          \* lockRange calls explored
MaxLockedEdits == 1    \* mutations explored together with locks
MaxTime == 2           \* clock ticks explored
MaxSuggestions == 1    \* suggestEdit calls explored
MaxCorrVersion == 6    \* mutations explored together with corrections
MaxCorrections == 1    \* applyQuickCorrection calls explored
MaxCorrLocks == 1      \* lockRange calls explored together with corrections
MaxRequests == 2       \* run calls explored
MaxBusSteps == 3       \* half timeouts of time explored on the bus
MaxReleaseCalls == 3   \* insertAt and lockRange calls explored together with lock release
MaxStrayRequests == 1  \* run calls explored together with stray message events
MaxStreamVersion == 2  \* mutations explored together with event streams
MaxStreams == 2        \* registerEventStream calls explored
MaxSubscribers == 2    \* subscribe calls explored
MaxLogOverflow == 2    \* mutations explored after the change log is full
MaxCorrOverflow == 2   \* applyQuickCorrection calls explored after the store is full
MaxIdCalls == 2        \* calls that give out an id explored together
MaxIdVersion == 3      \* mutations explored together with calls by id
MaxHandlerVersion == 2 \* mutations explored through the command handler
MaxHandlerLocks == 2   \* lock-range commands explored
MaxRevertVersion == 3  \* mutations explored together with revertToVersion
MaxOverlapCalls == 2    \* locks and insertions explored together, locks of every length
MaxEarlyVersion == 1     \* version up to which primitives and API edits join the typed changes
MaxDirectorRequests == 2 \* registerStream and run calls of the stream director explored
MaxLogText == 3        \* length of the text explored while the change log fills
MaxSubVersion == 2     \* mutations explored together with subscribers

Users == {"user1", "user2"}
Indices == 0..1
Lengths == 1..2
Texts == {<<"a">>, <<"b", "b">>}
OneLength == {1}
OneIndex == {1}
FirstIndex == {0}
Correctors == {"user1"}
Intruders == {"user2"}
OneText == {<<"a">>}
Durations == {1}
Limits == 0..3
AnnotationTexts == {"Check this"}
AnnotationTypes == {"comment"}
Reasons == {"Not needed"}
Sources == {"user", "api"}
Deltas == {[retain |-> 0, delete |-> 1, insert |-> <<>>],
           [retain |-> 1, delete |-> 0, insert |-> <<"a">>]}
InitialText == <<"s", "t">>
Alternates == <<<<"a">>, <<"b", "b">>>>
Commands == {"get-content"}
Results == {"done"}
Errors == {"Command failed", ""}

null == [null |-> TRUE]     \* null, where the code holds an object or null
undefined == "undefined"    \* a field the code has not set, where it holds a string

\* the callbacks a client subscribes with: one that records the change, one that throws
Callbacks == {[kind |-> "records", streamId |-> 0], [kind |-> "throws", streamId |-> 0]}

\* the keys under which clients pass the user id of a command
UserKeys == {"user-id", "userId", "user"}

\* the callbacks of clients that record the change; wants is the user whose
\* changes the client asks for when it subscribes, or undefined for all changes
ClientCallbacks ==
  {[kind |-> "records", streamId |-> 0, wants |-> w] : w \in Users \cup {undefined}}

StreamFilters == {[userId |-> undefined], [userId |-> "user1"]}

----------------------------------------------------------------------------
(* Error messages thrown by the document *)

RangeLockedMsg == "Range is locked by another user"
AlreadyLockedMsg(userId) == "Range already locked by " \o userId
CannotUnlockMsg == "Cannot unlock range locked by another user"
LockNotFoundMsg == "Lock not found"
SuggestionNotFoundMsg == "Suggestion not found"
SuggestionAlreadyMsg(status) == "Suggestion already " \o status
TransactionInProgressMsg == "Transaction already in progress"
CorrectionNotFoundMsg(correctionId) == "Correction " \o ToString(correctionId) \o " not found"
AlternateOutOfRangeMsg(alternateIndex) ==
  "Alternate index " \o ToString(alternateIndex) \o " out of range"
NotAFunctionMsg(method) == "this.addressWoolf.otDoc." \o method \o " is not a function"
RevertNotImplementedMsg == "Version reversion not yet implemented in simplified OT"
NoTransactionMsg == "No transaction in progress"

Min(a, b) == IF a < b THEN a ELSE b

----------------------------------------------------------------------------
(* The editor (Quill) as the document uses it: positions past the end are  *)
(* clipped to the end of the text.                                         *)

getText(q, index, length) ==
  SubSeq(q, Min(index, Len(q)) + 1, Min(index + length, Len(q)))

insertText(q, index, text) ==
  SubSeq(q, 1, Min(index, Len(q))) \o text \o SubSeq(q, Min(index, Len(q)) + 1, Len(q))

deleteText(q, index, length) ==
  SubSeq(q, 1, Min(index, Len(q))) \o SubSeq(q, Min(index + length, Len(q)) + 1, Len(q))

\* a delta is retain r, delete d, insert t
updateContents(q, delta) ==
  insertText(deleteText(q, delta.retain, delta.delete), delta.retain, delta.insert)

----------------------------------------------------------------------------
(* The document as one value, so that a method that calls other methods    *)
(* (acceptSuggestion calls replaceRange) is the composition of operators.  *)
(* err is "ok" or the message of the error the call threw.                 *)

Doc ==
  [quill |-> quill, version |-> version, changeLog |-> changeLog,
   rangeLocks |-> rangeLocks, corrections |-> corrections,
   correctionCounter |-> correctionCounter,
   changeSubscribers |-> changeSubscribers, delivered |-> delivered,
   eventStreams |-> eventStreams, posted |-> posted, err |-> "ok"]

maxLogSize == 1000

\* mutant: the version is not advanced
incrementVersionSkipped(d) == d

incrementVersion(d) == [d EXCEPT !.version = d.version + 1]

\* mutant: the version asked for is included
getChangesSinceInclusive(log, sinceVersion) ==
  SelectSeq(log, LAMBDA change : change.version >= sinceVersion)

getChangesSince(log, sinceVersion) ==
  SelectSeq(log, LAMBDA change : change.version > sinceVersion)

\* mutant: the entry is stamped with the version before the increment
logChangeStale(d, change) ==
  LET entry == [f \in (DOMAIN change) \cup {"version"} |->
                  IF f = "version" THEN d.version - 1 ELSE change[f]]
  IN  [d EXCEPT !.changeLog = Append(d.changeLog, entry)]

\* Array.prototype.slice(start) of JavaScript: a negative start counts from the
\* end and is clamped at the first element; -0 is 0, the first element
slice(seq, start) ==
  LET from == IF start < 0
              THEN (IF Len(seq) + start > 0 THEN Len(seq) + start ELSE 0)
              ELSE Min(start, Len(seq))
  IN  SubSeq(seq, from + 1, Len(seq))

\* getHistory(limit): this.changeLog.slice(-limit)
getHistory(log, limit) == slice(log, 0 - limit)

\* mutant: the log is never trimmed
trimLogNever(log) == log

\* if (this.changeLog.length > this.maxLogSize) this.changeLog = this.changeLog.slice(-this.maxLogSize)
trimLog(log) ==
  IF Len(log) > maxLogSize
  THEN SubSeq(log, Len(log) - maxLogSize + 1, Len(log))
  ELSE log

\* the stream of the bridge stored under streamId, or null
getStream(streams, streamId) ==
  IF \E k \in DOMAIN streams : streams[k].streamId = streamId
  THEN streams[CHOOSE k \in DOMAIN streams : streams[k].streamId = streamId]
  ELSE null

\* WoolfWorkerBridgeStream.sendChangeEvent: nothing for a stream that is gone
\* or inactive, or for a change of another user than the one of the filter
sendChangeEvent(d, streamId, change) ==
  LET stream == getStream(d.eventStreams, streamId) IN
  IF stream = null THEN d
  ELSE IF ~ stream.active THEN d
  ELSE IF stream.filters.userId # undefined /\ change.userId # stream.filters.userId THEN d
  ELSE [d EXCEPT !.posted = Append(@, [type |-> "woolf-change-event",
                                       streamId |-> streamId, change |-> change])]

\* one callback called with the change: a callback that records it, one that
\* throws, or the callback of a stream of the bridge
callSubscriber(d, subscriber, change) ==
  LET called == [d EXCEPT !.delivered =
                   Append(@, [subscriberId |-> subscriber.subscriberId,
                              change |-> change])]
  IN  IF subscriber.callback.kind = "stream"
      THEN sendChangeEvent(called, subscriber.callback.streamId, change)
      ELSE called

\* mutant: the error of a callback ends the forEach
RECURSIVE notifySubscribersUncaught(_, _, _)
notifySubscribersUncaught(d, subscribers, change) ==
  IF subscribers = <<>> THEN d
  ELSE IF Head(subscribers).callback.kind = "throws"
       THEN callSubscriber(d, Head(subscribers), change)
       ELSE notifySubscribersUncaught(callSubscriber(d, Head(subscribers), change),
                                      Tail(subscribers), change)

\* changeSubscribers.forEach: the callbacks are called in insertion order, the
\* error of a callback is caught and logged
RECURSIVE notifySubscribers(_, _, _)
notifySubscribers(d, subscribers, change) ==
  IF subscribers = <<>> THEN d
  ELSE notifySubscribers(callSubscriber(d, Head(subscribers), change),
                         Tail(subscribers), change)

\* entry = {...change, version: this.version}; push; trim to the last
\* maxLogSize; notify the subscribers
logChange(d, change) ==
  LET entry == [f \in (DOMAIN change) \cup {"version"} |->
                  IF f = "version" THEN d.version ELSE change[f]]
      pushed == Append(d.changeLog, entry)
      logged == [d EXCEPT !.changeLog = trimLog(pushed)]
  IN  notifySubscribers(logged, logged.changeSubscribers, entry)

\* mutant: only a new range that starts inside the other one overlaps it
rangesOverlapStartInside(range1, range2) ==
  LET end1 == range1.index + range1.length
      end2 == range2.index + range2.length
  IN  range1.index < end2 /\ range2.index <= range1.index

rangesOverlap(range1, range2) ==
  LET end1 == range1.index + range1.length
      end2 == range2.index + range2.length
  IN  range1.index < end2 /\ range2.index < end1

\* The loop of isRangeLocked over the Map: an expired lock met on the way is
\* deleted; the loop stops at the first live lock of another user that overlaps.
RECURSIVE isRangeLockedLoop(_, _, _, _, _, _)
isRangeLockedLoop(kept, rest, t, index, length, userId) ==
  IF rest = <<>> THEN [locked |-> FALSE, locks |-> kept]
  ELSE LET lock == Head(rest) IN
       IF t > lock.expiresAt
       THEN isRangeLockedLoop(kept, Tail(rest), t, index, length, userId)
       ELSE IF lock.userId # userId
               /\ rangesOverlap([index |-> index, length |-> length], lock.range)
            THEN [locked |-> TRUE, locks |-> kept \o rest]
            ELSE isRangeLockedLoop(Append(kept, lock), Tail(rest), t, index, length, userId)

isRangeLocked(locks, t, index, length, userId) ==
  isRangeLockedLoop(<<>>, locks, t, index, length, userId)

transformIndex(index) == index

insertAt(d, t, index, text, userId) ==
  LET chk == isRangeLocked(d.rangeLocks, t, index, Len(text), userId)
      d1 == [d EXCEPT !.rangeLocks = chk.locks]
      transformedIndex == transformIndex(index)
  IN  IF chk.locked THEN [d1 EXCEPT !.err = RangeLockedMsg]
      ELSE logChange(
             incrementVersion([d1 EXCEPT !.quill = insertText(d1.quill, transformedIndex, text)]),
             [type |-> "insert", userId |-> userId, index |-> transformedIndex,
              text |-> text, length |-> Len(text)])

\* mutant: the deletion is made in the editor only, unversioned and unlogged
deleteRangeUnlogged(d, t, index, length, userId) ==
  LET chk == isRangeLocked(d.rangeLocks, t, index, length, userId)
      d1 == [d EXCEPT !.rangeLocks = chk.locks]
      transformedIndex == transformIndex(index)
  IN  IF chk.locked THEN [d1 EXCEPT !.err = RangeLockedMsg]
      ELSE [d1 EXCEPT !.quill = deleteText(d1.quill, transformedIndex, length)]

deleteRange(d, t, index, length, userId) ==
  LET chk == isRangeLocked(d.rangeLocks, t, index, length, userId)
      d1 == [d EXCEPT !.rangeLocks = chk.locks]
      transformedIndex == transformIndex(index)
  IN  IF chk.locked THEN [d1 EXCEPT !.err = RangeLockedMsg]
      ELSE logChange(
             incrementVersion([d1 EXCEPT !.quill = deleteText(d1.quill, transformedIndex, length)]),
             [type |-> "delete", userId |-> userId, index |-> transformedIndex,
              length |-> length])

replaceRange(d, t, index, length, text, userId) ==
  LET chk == isRangeLocked(d.rangeLocks, t, index, length, userId)
      d1 == [d EXCEPT !.rangeLocks = chk.locks]
      transformedIndex == transformIndex(index)
  IN  IF chk.locked THEN [d1 EXCEPT !.err = RangeLockedMsg]
      ELSE logChange(
             incrementVersion(
               [d1 EXCEPT !.quill = insertText(deleteText(d1.quill, transformedIndex, length),
                                               transformedIndex, text)]),
             [type |-> "replace", userId |-> userId, index |-> transformedIndex,
              oldLength |-> length, newText |-> text, newLength |-> Len(text)])

applyDelta(d, delta, userId) ==
  logChange(
    incrementVersion([d EXCEPT !.quill = updateContents(d.quill, delta)]),
    [type |-> "delta", userId |-> userId, delta |-> delta])

----------------------------------------------------------------------------
(* State changes shared by the actions *)

Returned(op, status, thrown) == [op |-> op, status |-> status, thrown |-> thrown]

\* store the document d back into the variables
SetDoc(d) ==
  /\ quill' = d.quill
  /\ version' = d.version
  /\ changeLog' = d.changeLog
  /\ rangeLocks' = d.rangeLocks
  /\ delivered' = d.delivered
  /\ posted' = d.posted

\* a primitive called directly: its result is returned, its error thrown
Primitive(op, result) ==
  \E d \in {result} :
    /\ SetDoc(d)
    /\ ret' = Returned(op, d.err, d.err # "ok")
    /\ UNCHANGED <<lockCounter, timers, now, suggVars, txnVars, corrVars, busVars,
                   subVars, streamVars, annVars>>

----------------------------------------------------------------------------
(* Mutation primitives *)

InsertAt(index, text, userId) ==
  Primitive("insertAt", insertAt(Doc, now, index, text, userId))

DeleteRange(index, length, userId) ==
  Primitive("deleteRange", deleteRange(Doc, now, index, length, userId))

ReplaceRange(index, length, text, userId) ==
  Primitive("replaceRange", replaceRange(Doc, now, index, length, text, userId))

ApplyDelta(delta, userId) ==
  Primitive("applyDelta", applyDelta(Doc, delta, userId))

\* mutant: the external change is logged under the version of the change before it
handleTextChangeUnversioned(d, delta, source) ==
  IF source = "user"
  THEN logChange(d, [type |-> "external", userId |-> "system", delta |-> delta,
                     source |-> source])
  ELSE d

\* handleTextChange(delta, oldDelta, source): only changes typed into the editor are logged
handleTextChange(d, delta, source) ==
  IF source = "user"
  THEN logChange(incrementVersion(d),
                 [type |-> "external", userId |-> "system", delta |-> delta,
                  source |-> source])
  ELSE d

\* the editor is changed from outside the document's methods (typing has the
\* source "user", a call of the editor's API by other code "api"): the editor
\* applies the delta and emits text-change, which calls handleTextChange
HandleTextChange(delta, source) ==
  Primitive("handleTextChange",
            handleTextChange([Doc EXCEPT !.quill = updateContents(quill, delta)], delta, source))

----------------------------------------------------------------------------
(* Range locks *)

\* the locks that make lockRange throw: overlapping, of another user (expiry is not looked at)
lockRangeConflicts(locks, index, length, userId) ==
  SelectSeq(locks, LAMBDA lock :
    rangesOverlap([index |-> index, length |-> length], lock.range)
    /\ lock.userId # userId)

\* mutant: the id of a released lock is given out again
LockRangeReusedId(userId, index, length, duration) ==
  LET conflicts == lockRangeConflicts(rangeLocks, index, length, userId)
      lockId == Len(rangeLocks) + 1
      lock == [lockId |-> lockId, userId |-> userId,
               range |-> [index |-> index, length |-> length],
               expiresAt |-> now + duration]
  IN  IF conflicts # <<>>
      THEN /\ ret' = Returned("lockRange", AlreadyLockedMsg(conflicts[1].userId), TRUE)
           /\ UNCHANGED <<docVars, lockVars, now, suggVars, txnVars, corrVars, busVars,
                          subVars, streamVars, annVars, outVars>>
      ELSE /\ lockCounter' = lockId
           /\ rangeLocks' = Append(rangeLocks, lock)
           /\ timers' = timers \cup {[lockId |-> lockId, userId |-> userId, due |-> now + duration]}
           /\ ret' = Returned("lockRange", "ok", FALSE)
           /\ UNCHANGED <<docVars, now, suggVars, txnVars, corrVars, busVars,
                          subVars, streamVars, annVars, outVars>>

LockRange(userId, index, length, duration) ==
  LET conflicts == lockRangeConflicts(rangeLocks, index, length, userId)
      lockId == lockCounter + 1
      lock == [lockId |-> lockId, userId |-> userId,
               range |-> [index |-> index, length |-> length],
               expiresAt |-> now + duration]
  IN  IF conflicts # <<>>
      THEN /\ ret' = Returned("lockRange", AlreadyLockedMsg(conflicts[1].userId), TRUE)
           /\ UNCHANGED <<docVars, lockVars, now, suggVars, txnVars, corrVars, busVars,
                          subVars, streamVars, annVars, outVars>>
      ELSE /\ lockCounter' = lockId
           /\ rangeLocks' = Append(rangeLocks, lock)
           /\ timers' = timers \cup {[lockId |-> lockId, userId |-> userId, due |-> now + duration]}
           /\ ret' = Returned("lockRange", "ok", FALSE)
           /\ UNCHANGED <<docVars, now, suggVars, txnVars, corrVars, busVars,
                          subVars, streamVars, annVars, outVars>>

\* mutant: any user may unlock
unlockRangeAnyone(locks, lockId, userId) ==
  IF SelectSeq(locks, LAMBDA lock : lock.lockId = lockId) = <<>>
  THEN [locks |-> locks, status |-> LockNotFoundMsg, thrown |-> FALSE]
  ELSE [locks |-> SelectSeq(locks, LAMBDA lock : lock.lockId # lockId),
        status |-> "ok", thrown |-> FALSE]

\* unlockRange on the Map locks: the Map it leaves and what it returns or throws
unlockRange(locks, lockId, userId) ==
  LET found == SelectSeq(locks, LAMBDA lock : lock.lockId = lockId) IN
  IF found = <<>>
  THEN [locks |-> locks, status |-> LockNotFoundMsg, thrown |-> FALSE]
  ELSE IF found[1].userId # userId
       THEN [locks |-> locks, status |-> CannotUnlockMsg, thrown |-> TRUE]
       ELSE [locks |-> SelectSeq(locks, LAMBDA lock : lock.lockId # lockId),
             status |-> "ok", thrown |-> FALSE]

\* mutant: the lock stays in the Map
UnlockRangeKept(lockId, userId) ==
  LET r == unlockRange(rangeLocks, lockId, userId) IN
  /\ ret' = Returned("unlockRange", r.status, r.thrown)
  /\ UNCHANGED <<docVars, lockVars, now, suggVars, txnVars, corrVars, busVars,
                 subVars, streamVars, annVars, outVars>>

UnlockRange(lockId, userId) ==
  LET r == unlockRange(rangeLocks, lockId, userId) IN
  /\ rangeLocks' = r.locks
  /\ ret' = Returned("unlockRange", r.status, r.thrown)
  /\ UNCHANGED <<docVars, lockCounter, timers, now, suggVars, txnVars, corrVars, busVars,
                 subVars, streamVars, annVars, outVars>>

\* mutant: the callback does nothing
LockTimerIdle(timer) ==
  /\ timer \in timers
  /\ now >= timer.due
  /\ timers' = timers \ {timer}
  /\ ret' = Returned("lockTimer", "ok", FALSE)
  /\ UNCHANGED <<docVars, rangeLocks, lockCounter, now, suggVars, txnVars, corrVars, busVars,
                 subVars, streamVars, annVars, outVars>>

\* the setTimeout callback of lockRange: () => this.unlockRange(lockId, userId)
LockTimer(timer) ==
  LET r == unlockRange(rangeLocks, timer.lockId, timer.userId) IN
  /\ timer \in timers
  /\ now >= timer.due
  /\ timers' = timers \ {timer}
  /\ rangeLocks' = r.locks
  /\ ret' = Returned("lockTimer", r.status, r.thrown)
  /\ UNCHANGED <<docVars, lockCounter, now, suggVars, txnVars, corrVars, busVars,
                 subVars, streamVars, annVars, outVars>>

\* time passes
Tick ==
  /\ now' = now + 1
  /\ UNCHANGED <<docVars, lockVars, suggVars, txnVars, ret, corrVars, busVars,
                 subVars, streamVars, annVars, outVars>>

----------------------------------------------------------------------------
(* Suggestions *)

getRangeText(q, index, length) == getText(q, index, length)

getSuggestion(suggestionId) ==
  SelectSeq(suggestions, LAMBDA s : s.suggestionId = suggestionId)

\* the Map with the entry of suggestion.suggestionId replaced by suggestion
putSuggestion(suggestion) ==
  [k \in DOMAIN suggestions |->
     IF suggestions[k].suggestionId = suggestion.suggestionId
     THEN suggestion ELSE suggestions[k]]

SuggestEdit(userId, index, length, newText) ==
  LET suggestionId == suggestionCounter + 1
      suggestion == [suggestionId |-> suggestionId, userId |-> userId,
                     range |-> [index |-> index, length |-> length],
                     newText |-> newText,
                     oldText |-> getRangeText(quill, index, length),
                     status |-> "pending",
                     acceptedBy |-> undefined, rejectedBy |-> undefined,
                     rejectionReason |-> undefined]
  IN  /\ suggestionCounter' = suggestionId
      /\ suggestions' = Append(suggestions, suggestion)
      /\ ret' = Returned("suggestEdit", "ok", FALSE)
      /\ UNCHANGED <<docVars, lockVars, now, txnVars, corrVars, busVars,
                     subVars, streamVars, annVars, outVars>>

\* mutant: the suggestion is marked accepted before the replace is tried
AcceptSuggestionMarkedFirst(suggestionId, acceptingUserId) ==
  LET found == getSuggestion(suggestionId) IN
  IF found = <<>>
  THEN /\ ret' = Returned("acceptSuggestion", SuggestionNotFoundMsg, TRUE)
       /\ UNCHANGED <<docVars, lockVars, now, suggVars, txnVars, corrVars, busVars,
                      subVars, streamVars, annVars, outVars>>
  ELSE IF found[1].status # "pending"
  THEN /\ ret' = Returned("acceptSuggestion", SuggestionAlreadyMsg(found[1].status), TRUE)
       /\ UNCHANGED <<docVars, lockVars, now, suggVars, txnVars, corrVars, busVars,
                      subVars, streamVars, annVars, outVars>>
  ELSE LET suggestion == found[1] IN
       \E d \in {replaceRange(Doc, now, suggestion.range.index, suggestion.range.length,
                              suggestion.newText, acceptingUserId)} :
           /\ SetDoc(d)
           /\ suggestions' =
                IF FALSE THEN suggestions
                ELSE putSuggestion([suggestion EXCEPT !.status = "accepted",
                                                      !.acceptedBy = acceptingUserId])
           /\ ret' = Returned("acceptSuggestion", d.err, d.err # "ok")
           /\ UNCHANGED <<lockCounter, timers, now, suggestionCounter, txnVars, corrVars, busVars,
                          subVars, streamVars, annVars>>

AcceptSuggestion(suggestionId, acceptingUserId) ==
  LET found == getSuggestion(suggestionId) IN
  IF found = <<>>
  THEN /\ ret' = Returned("acceptSuggestion", SuggestionNotFoundMsg, TRUE)
       /\ UNCHANGED <<docVars, lockVars, now, suggVars, txnVars, corrVars, busVars,
                      subVars, streamVars, annVars, outVars>>
  ELSE IF found[1].status # "pending"
  THEN /\ ret' = Returned("acceptSuggestion", SuggestionAlreadyMsg(found[1].status), TRUE)
       /\ UNCHANGED <<docVars, lockVars, now, suggVars, txnVars, corrVars, busVars,
                      subVars, streamVars, annVars, outVars>>
  ELSE LET suggestion == found[1] IN
       \E d \in {replaceRange(Doc, now, suggestion.range.index, suggestion.range.length,
                              suggestion.newText, acceptingUserId)} :
           /\ SetDoc(d)
           /\ suggestions' =
                IF d.err # "ok" THEN suggestions
                ELSE putSuggestion([suggestion EXCEPT !.status = "accepted",
                                                      !.acceptedBy = acceptingUserId])
           /\ ret' = Returned("acceptSuggestion", d.err, d.err # "ok")
           /\ UNCHANGED <<lockCounter, timers, now, suggestionCounter, txnVars, corrVars, busVars,
                          subVars, streamVars, annVars>>

RejectSuggestion(suggestionId, rejectingUserId, reason) ==
  LET found == getSuggestion(suggestionId) IN
  IF found = <<>>
  THEN /\ ret' = Returned("rejectSuggestion", SuggestionNotFoundMsg, TRUE)
       /\ UNCHANGED <<docVars, lockVars, now, suggVars, txnVars, corrVars, busVars,
                      subVars, streamVars, annVars, outVars>>
  ELSE /\ suggestions' = putSuggestion([found[1] EXCEPT !.status = "rejected",
                                                        !.rejectedBy = rejectingUserId,
                                                        !.rejectionReason = reason])
       /\ ret' = Returned("rejectSuggestion", "ok", FALSE)
       /\ UNCHANGED <<docVars, lockVars, now, suggestionCounter, txnVars, corrVars, busVars,
                      subVars, streamVars, annVars, outVars>>

----------------------------------------------------------------------------
(* Quick corrections.  Each is a deleteRange followed by an insertAt; when  *)
(* one of the two throws, what was done before the throw stays done.        *)

maxCorrections == 100

getCorrection(d, correctionId) ==
  SelectSeq(d.corrections, LAMBDA c : c.correctionId = correctionId)

\* the Map with the entry of correction.correctionId replaced by correction
putCorrection(d, correction) ==
  [d EXCEPT !.corrections =
     [k \in DOMAIN d.corrections |->
        IF d.corrections[k].correctionId = correction.correctionId
        THEN correction ELSE d.corrections[k]]]

\* mutant: no correction is ever dropped
keepLastCorrectionsAll(stored) == stored

\* if (this.corrections.size > 100) the first key of the Map is deleted
keepLastCorrections(stored) ==
  IF Len(stored) > maxCorrections THEN Tail(stored) ELSE stored

\* mutant: the record keeps the length of the text that was replaced
applyQuickCorrectionOldLength(d, t, userId, index, length, original, correction, alternates) ==
  LET correctionId == d.correctionCounter + 1
      d0 == [d EXCEPT !.correctionCounter = correctionId]
      d1 == deleteRange(d0, t, index, length, userId)
      d2 == insertAt(d1, t, index, correction, userId)
      correctionInfo ==
        [correctionId |-> correctionId, userId |-> userId,
         range |-> [index |-> index, length |-> length],
         original |-> original, applied |-> correction, alternates |-> alternates,
         version |-> d2.version,
         reverted |-> FALSE, revertedBy |-> undefined,
         alternateSelected |-> <<>>, switchedBy |-> undefined]
  IN  IF d1.err # "ok" THEN d1
      ELSE IF d2.err # "ok" THEN d2
      ELSE [d2 EXCEPT !.corrections = Append(d2.corrections, correctionInfo)]

applyQuickCorrection(d, t, userId, index, length, original, correction, alternates) ==
  LET correctionId == d.correctionCounter + 1
      d0 == [d EXCEPT !.correctionCounter = correctionId]
      d1 == deleteRange(d0, t, index, length, userId)
      d2 == insertAt(d1, t, index, correction, userId)
      correctionInfo ==
        [correctionId |-> correctionId, userId |-> userId,
         range |-> [index |-> index, length |-> Len(correction)],
         original |-> original, applied |-> correction, alternates |-> alternates,
         version |-> d2.version,
         reverted |-> FALSE, revertedBy |-> undefined,
         alternateSelected |-> <<>>, switchedBy |-> undefined]
      stored == Append(d2.corrections, correctionInfo)
  IN  IF d1.err # "ok" THEN d1
      ELSE IF d2.err # "ok" THEN d2
      ELSE [d2 EXCEPT !.corrections =
              keepLastCorrections(stored)]

revertCorrection(d, t, correctionId, userId) ==
  LET found == getCorrection(d, correctionId) IN
  IF found = <<>> THEN [d EXCEPT !.err = CorrectionNotFoundMsg(correctionId)]
  ELSE LET correction == found[1]
           d1 == deleteRange(d, t, correction.range.index, correction.range.length, userId)
           d2 == insertAt(d1, t, correction.range.index, correction.original, userId)
       IN  IF d1.err # "ok" THEN d1
           ELSE IF d2.err # "ok" THEN d2
           ELSE putCorrection(d2, [correction EXCEPT !.reverted = TRUE,
                                                     !.revertedBy = userId])

\* mutant: the recorded length is not updated
switchToAlternateStaleLength(d, t, correctionId, alternateIndex, userId) ==
  LET found == getCorrection(d, correctionId) IN
  IF found = <<>> THEN [d EXCEPT !.err = CorrectionNotFoundMsg(correctionId)]
  ELSE LET correction == found[1] IN
       IF alternateIndex < 0 \/ alternateIndex >= Len(correction.alternates)
       THEN [d EXCEPT !.err = AlternateOutOfRangeMsg(alternateIndex)]
       ELSE LET alternate == correction.alternates[alternateIndex + 1]
                d1 == deleteRange(d, t, correction.range.index,
                                  correction.range.length, userId)
                d2 == insertAt(d1, t, correction.range.index, alternate, userId)
            IN  IF d1.err # "ok" THEN d1
                ELSE IF d2.err # "ok" THEN d2
                ELSE putCorrection(d2, [correction EXCEPT
                                          !.applied = alternate,
                                          !.alternateSelected = <<alternateIndex>>,
                                          !.switchedBy = userId])

\* alternateIndex counts from 0, as in the code
switchToAlternate(d, t, correctionId, alternateIndex, userId) ==
  LET found == getCorrection(d, correctionId) IN
  IF found = <<>> THEN [d EXCEPT !.err = CorrectionNotFoundMsg(correctionId)]
  ELSE LET correction == found[1] IN
       IF alternateIndex < 0 \/ alternateIndex >= Len(correction.alternates)
       THEN [d EXCEPT !.err = AlternateOutOfRangeMsg(alternateIndex)]
       ELSE LET alternate == correction.alternates[alternateIndex + 1]
                d1 == deleteRange(d, t, correction.range.index,
                                  correction.range.length, userId)
                d2 == insertAt(d1, t, correction.range.index, alternate, userId)
            IN  IF d1.err # "ok" THEN d1
                ELSE IF d2.err # "ok" THEN d2
                ELSE putCorrection(d2, [correction EXCEPT
                                          !.applied = alternate,
                                          !.range.length = Len(alternate),
                                          !.alternateSelected = <<alternateIndex>>,
                                          !.switchedBy = userId])

\* a correction method called: its result is stored, its error thrown
Correction(op, result) ==
  \E d \in {result} :
    /\ SetDoc(d)
    /\ corrections' = d.corrections
    /\ correctionCounter' = d.correctionCounter
    /\ ret' = Returned(op, d.err, d.err # "ok")
    /\ UNCHANGED <<lockCounter, timers, now, suggVars, txnVars, busVars, subVars, streamVars, annVars>>

ApplyQuickCorrection(userId, index, length, original, correction, alternates) ==
  Correction("applyQuickCorrection",
             applyQuickCorrection(Doc, now, userId, index, length, original,
                                  correction, alternates))

RevertCorrection(correctionId, userId) ==
  Correction("revertCorrection", revertCorrection(Doc, now, correctionId, userId))

SwitchToAlternate(correctionId, alternateIndex, userId) ==
  Correction("switchToAlternate",
             switchToAlternate(Doc, now, correctionId, alternateIndex, userId))

----------------------------------------------------------------------------
(* Transactions.  transactionStack, which the document only pushes to and   *)
(* never reads, is not modelled; a transaction is the object commit and    *)
(* rollback return.                                                        *)

\* mutant: begin does not look at the open transaction
BeginTransactionNested(userId) ==
  /\ currentTransaction' = [userId |-> userId, startVersion |-> version, changes |-> <<>>]
  /\ beginQuill' = quill
  /\ ret' = Returned("beginTransaction", "ok", FALSE)
  /\ UNCHANGED <<docVars, lockVars, now, suggVars, corrVars, busVars, subVars, streamVars, annVars, outVars>>

BeginTransaction(userId) ==
  LET transaction == [userId |-> userId, startVersion |-> version, changes |-> <<>>]
  IN  IF currentTransaction # null
      THEN /\ ret' = Returned("beginTransaction", TransactionInProgressMsg, TRUE)
           /\ UNCHANGED <<docVars, lockVars, now, suggVars, txnVars, corrVars, busVars,
                          subVars, streamVars, annVars, outVars>>
      ELSE /\ currentTransaction' = transaction
           /\ beginQuill' = quill
           /\ ret' = Returned("beginTransaction", "ok", FALSE)
           /\ UNCHANGED <<docVars, lockVars, now, suggVars, corrVars, busVars,
                          subVars, streamVars, annVars, outVars>>

CommitTransaction ==
  IF currentTransaction = null
  THEN /\ ret' = Returned("commitTransaction", NoTransactionMsg, TRUE)
       /\ UNCHANGED <<docVars, lockVars, now, suggVars, txnVars, corrVars, busVars,
                      subVars, streamVars, annVars, outVars>>
  ELSE /\ currentTransaction' = null
       /\ ret' = Returned("commitTransaction", "ok", FALSE)
       /\ UNCHANGED <<docVars, lockVars, now, suggVars, beginQuill, corrVars, busVars,
                      subVars, streamVars, annVars, outVars>>

RollbackTransaction ==
  IF currentTransaction = null
  THEN /\ ret' = Returned("rollbackTransaction", NoTransactionMsg, TRUE)
       /\ UNCHANGED <<docVars, lockVars, now, suggVars, txnVars, corrVars, busVars,
                      subVars, streamVars, annVars, outVars>>
  ELSE /\ currentTransaction' = null
       /\ ret' = Returned("rollbackTransaction", "ok", FALSE)
       /\ UNCHANGED <<docVars, lockVars, now, suggVars, beginQuill, corrVars, busVars,
                      subVars, streamVars, annVars, outVars>>

----------------------------------------------------------------------------
(* History *)

\* revertToVersion(targetVersion): the method only throws
RevertToVersion(targetVersion) ==
  /\ ret' = Returned("revertToVersion", RevertNotImplementedMsg, TRUE)
  /\ UNCHANGED <<docVars, lockVars, now, suggVars, txnVars, corrVars, busVars, subVars,
                 streamVars, annVars, outVars>>

----------------------------------------------------------------------------
(* Annotations *)

\* annotate(userId, index, length, text, type)
Annotate(userId, index, length, text, type) ==
  LET annotationId == annotationCounter + 1 IN
  /\ annotationCounter' = annotationId
  /\ annotations' = Append(annotations,
                           [annotationId |-> annotationId, userId |-> userId,
                            range |-> [index |-> index, length |-> length],
                            text |-> text, type |-> type])
  /\ ret' = Returned("annotate", "ok", FALSE)
  /\ UNCHANGED <<docVars, lockVars, now, suggVars, txnVars, corrVars, busVars, subVars,
                 streamVars, outVars>>

\* deleteAnnotation(annotationId): Map.delete, whose boolean result is returned
DeleteAnnotation(annotationId) ==
  LET found == \E k \in DOMAIN annotations : annotations[k].annotationId = annotationId IN
  /\ annotations' =
       SelectSeq(annotations, LAMBDA annotation : annotation.annotationId # annotationId)
  /\ ret' = Returned("deleteAnnotation", IF found THEN "true" ELSE "false", FALSE)
  /\ UNCHANGED <<docVars, lockVars, now, suggVars, txnVars, corrVars, busVars, subVars,
                 streamVars, annotationCounter, outVars>>

----------------------------------------------------------------------------
(* Change subscriptions of the document, and the event streams of          *)
(* WoolfWorkerBridgeStream (src/unnamed/part_009), whose addressWoolf.otDoc *)
(* is the document.                                                        *)

\* subscribe(callback)
Subscribe(callback) ==
  LET subscriberId == subscriberCounter + 1 IN
  /\ subscriberCounter' = subscriberId
  /\ changeSubscribers' = Append(changeSubscribers,
                                 [subscriberId |-> subscriberId, callback |-> callback])
  /\ ret' = Returned("subscribe", "ok", FALSE)
  /\ UNCHANGED <<docVars, lockVars, now, suggVars, txnVars, corrVars, busVars,
                 streamVars, annVars, outVars>>

\* subscribe(callback, filters): the method has the one parameter callback, a
\* second argument is dropped
SubscribeFiltered(callback, filters) == Subscribe(callback)

\* unsubscribe(subscriberId): Map.delete
Unsubscribe(subscriberId) ==
  /\ changeSubscribers' =
       SelectSeq(changeSubscribers, LAMBDA sub : sub.subscriberId # subscriberId)
  /\ ret' = Returned("unsubscribe", "ok", FALSE)
  /\ UNCHANGED <<docVars, lockVars, now, suggVars, txnVars, corrVars, busVars,
                 subscriberCounter, streamVars, annVars, outVars>>

\* WoolfOTDocument has subscribe and unsubscribe and no method of this name:
\* the call throws a TypeError
subscribeToChanges(d, subscriberId, callback) ==
  [d EXCEPT !.err = NotAFunctionMsg("subscribeToChanges")]

\* sendInitialState(streamId)
sendInitialState(d, streamId) ==
  LET stream == getStream(d.eventStreams, streamId) IN
  IF stream = null THEN d
  ELSE IF ~ stream.active THEN d
  ELSE [d EXCEPT !.posted =
          Append(@, [type |-> "woolf-initial-state", streamId |-> streamId,
                     state |-> [version |-> d.version, length |-> Len(d.quill) + 1]])]

\* registerEventStream(targetWindow, origin, filters): the stream is stored,
\* the document is subscribed to, the subscription is noted in the stream and
\* the initial state is sent
registerEventStream(d, streamId, filters) ==
  LET d1 == [d EXCEPT !.eventStreams =
               Append(@, [streamId |-> streamId, filters |-> filters, active |-> TRUE,
                          subscriptionId |-> 0])]
      d2 == subscribeToChanges(d1, streamId, [kind |-> "stream", streamId |-> streamId])
  IN  IF d2.err # "ok" THEN d2
      ELSE sendInitialState(d2, streamId)

RegisterEventStream(filters) ==
  LET streamId == streamIdCounter + 1 IN
  \E d \in {registerEventStream(Doc, streamId, filters)} :
    /\ streamIdCounter' = streamId
    /\ eventStreams' = d.eventStreams
    /\ changeSubscribers' = d.changeSubscribers
    /\ SetDoc(d)
    /\ ret' = Returned("registerEventStream", d.err, d.err # "ok")
    /\ UNCHANGED <<lockCounter, timers, now, suggVars, txnVars, corrVars, busVars,
                   subscriberCounter, director, annVars>>

\* unregisterEventStream(streamId): a stream without subscriptionId is only
\* marked inactive and deleted
UnregisterEventStream(streamId) ==
  LET stream == getStream(eventStreams, streamId) IN
  /\ IF stream = null
     THEN /\ ret' = Returned("unregisterEventStream", "ok", FALSE)
          /\ UNCHANGED eventStreams
     ELSE IF stream.subscriptionId # 0
     THEN /\ ret' = Returned("unregisterEventStream",
                             NotAFunctionMsg("unsubscribeFromChanges"), TRUE)
          /\ UNCHANGED eventStreams
     ELSE /\ ret' = Returned("unregisterEventStream", "ok", FALSE)
          /\ eventStreams' = SelectSeq(eventStreams, LAMBDA st : st.streamId # streamId)
  /\ UNCHANGED <<docVars, lockVars, now, suggVars, txnVars, corrVars, busVars, subVars,
                 streamIdCounter, director, annVars, outVars>>

----------------------------------------------------------------------------
(* The director of the event stream (WoolfDirectorBridgeStream): director   *)
(* holds its fields, the promises it returned, the timeouts it scheduled,   *)
(* the envelopes it posted that the worker has not handled (toWorker) and   *)
(* the envelopes posted to its window that it has not handled (inbox).      *)
(* pendingRequests is the Map in insertion order.                           *)

RegistrationTimeoutMsg == "Stream registration timeout"
StreamCommandTimeoutMsg == "Command timeout"

\* the message events the window of the director can receive
DirectorMessages ==
  {[type |-> "woolf-stream-registered", streamId |-> id, requestId |-> 0,
    success |-> TRUE, result |-> undefined, error |-> undefined] : id \in 1..MaxStreams}
  \cup {[type |-> "woolf-response", streamId |-> 0, requestId |-> id,
         success |-> ok, result |-> IF ok THEN res ELSE undefined,
         error |-> IF ok THEN undefined ELSE "Command failed"] :
           id \in 1..MaxDirectorRequests, ok \in BOOLEAN, res \in Results}
  \cup {[type |-> "woolf-change-event", streamId |-> id, requestId |-> 0,
         success |-> TRUE, result |-> undefined, error |-> undefined] : id \in 1..MaxStreams}

\* new Promise(...) of registerStream and run: the handlers are stored under the
\* next requestId, the envelope is posted and the timeout is scheduled
directorRequest(dir, kind, envelope) ==
  LET requestId == dir.requestIdCounter + 1 IN
  [dir EXCEPT !.requestIdCounter = requestId,
              !.pendingRequests = Append(@, requestId),
              !.promises = Append(@, [requestId |-> requestId, kind |-> kind,
                                      state |-> "pending", value |-> undefined]),
              !.toWorker = @ \cup {[envelope EXCEPT !.requestId = requestId]},
              !.timers = @ \cup {requestId}]

\* resolve or reject of the promise of requestId: a settled promise stays as it is
settlePromise(promises, requestId, state, value) ==
  [k \in DOMAIN promises |->
     IF promises[k].requestId = requestId /\ promises[k].state = "pending"
     THEN [promises[k] EXCEPT !.state = state, !.value = value]
     ELSE promises[k]]

DirectorStep(op, status, dir) ==
  /\ director' = dir
  /\ ret' = Returned(op, status, FALSE)
  /\ UNCHANGED <<docVars, lockVars, now, suggVars, txnVars, corrVars, busVars, subVars,
                 eventStreams, streamIdCounter, annVars, outVars>>

DirectorRegisterStream(filters) ==
  DirectorStep("registerStream", "ok",
    directorRequest(director, "registerStream",
                    [type |-> "woolf-stream-register", requestId |-> 0, filters |-> filters]))

DirectorRun(command) ==
  DirectorStep("run", "ok",
    directorRequest(director, "run",
                    [type |-> "woolf-control", requestId |-> 0, command |-> command]))

\* the setTimeout callback of registerStream and of run
DirectorTimeout(requestId) ==
  LET kind == director.promises[requestId].kind
      msg == IF kind = "run" THEN StreamCommandTimeoutMsg ELSE RegistrationTimeoutMsg
      has == \E k \in DOMAIN director.pendingRequests : director.pendingRequests[k] = requestId
  IN  /\ requestId \in director.timers
      /\ DirectorStep("timeout", IF has THEN msg ELSE "ok",
           IF has
           THEN [director EXCEPT
                   !.timers = @ \ {requestId},
                   !.pendingRequests = SelectSeq(@, LAMBDA id : id # requestId),
                   !.promises = settlePromise(@, requestId, "rejected", msg)]
           ELSE [director EXCEPT !.timers = @ \ {requestId}])

\* the for loop of the woolf-stream-registered branch: every entry of the Map is
\* resolved with the stream id and deleted
RECURSIVE resolveAll(_, _, _)
resolveAll(promises, pending, streamId) ==
  IF pending = <<>> THEN promises
  ELSE resolveAll(settlePromise(promises, Head(pending), "resolved", streamId),
                  Tail(pending), streamId)

\* handleMessage(event) of the director
directorHandleMessage(dir, data) ==
  IF data.type = "woolf-stream-registered"
  THEN [dir EXCEPT !.streamId = data.streamId,
                   !.promises = resolveAll(@, dir.pendingRequests, data.streamId),
                   !.pendingRequests = <<>>]
  ELSE IF data.type = "woolf-response"
  THEN IF \E k \in DOMAIN dir.pendingRequests : dir.pendingRequests[k] = data.requestId
       THEN [dir EXCEPT
               !.promises = IF data.success
                            THEN settlePromise(@, data.requestId, "resolved", data.result)
                            ELSE settlePromise(@, data.requestId, "rejected", data.error),
               !.pendingRequests = SelectSeq(@, LAMBDA id : id # data.requestId)]
       ELSE dir
  ELSE dir

\* a message event of the director's window, whoever posted it
DirectorHandleMessage(data) ==
  DirectorStep("handleMessage", data.type, directorHandleMessage(director, data))

\* the message event of an envelope that the worker posted
DirectorReceive(data) ==
  /\ data \in director.inbox
  /\ DirectorStep("handleMessage", data.type,
                  directorHandleMessage([director EXCEPT !.inbox = @ \ {data}], data))

\* WoolfWorkerBridgeStream.handleMessage, woolf-control branch: the command is
\* run and the envelope of the try block or of the catch block is posted
StreamHandleControl(data, success, result, error) ==
  /\ data \in director.toWorker
  /\ data.type = "woolf-control"
  /\ DirectorStep("streamHandleMessage", data.type,
       [director EXCEPT
          !.toWorker = @ \ {data},
          !.inbox = @ \cup {[type |-> "woolf-response", streamId |-> 0,
                             requestId |-> data.requestId, success |-> success,
                             result |-> IF success THEN result ELSE undefined,
                             error |-> IF success THEN undefined ELSE error]}])

\* WoolfWorkerBridgeStream.handleMessage, woolf-stream-register branch: the
\* stream is registered and then the acknowledgement is posted; an error of
\* registerEventStream rejects the promise of the async handler
StreamHandleRegister(data) ==
  LET streamId == streamIdCounter + 1 IN
  /\ data \in director.toWorker
  /\ data.type = "woolf-stream-register"
  /\ \E d \in {registerEventStream(Doc, streamId, data.filters)} :
       /\ streamIdCounter' = streamId
       /\ eventStreams' = d.eventStreams
       /\ changeSubscribers' = d.changeSubscribers
       /\ SetDoc(d)
       /\ director' =
            [director EXCEPT
               !.toWorker = @ \ {data},
               !.inbox = IF d.err # "ok" THEN @
                         ELSE @ \cup {[type |-> "woolf-stream-registered",
                                       streamId |-> streamId, requestId |-> 0,
                                       success |-> TRUE, result |-> undefined,
                                       error |-> undefined]}]
       /\ ret' = Returned("streamHandleMessage", d.err, d.err # "ok")
       /\ UNCHANGED <<lockCounter, timers, now, suggVars, txnVars, corrVars, busVars,
                      subscriberCounter, annVars>>

----------------------------------------------------------------------------
(* The command handler (woolf-rexx-handler.js): a command's parameters are   *)
(* read and the method of the document is called with them.                *)

\* a || b of JavaScript on parameters that are strings or absent
or(a, b) == IF a # undefined /\ a # "" THEN a ELSE b

\* params.userId || params.user || 'system'
paramUserId(params) == or(params["userId"], or(params["user"], "system"))

\* the parameters of a command: the user id under one of the keys clients use,
\* and the numbers and the text the command needs
CommandParams ==
  {[k \in UserKeys \cup {"index", "length", "text", "duration"} |->
      CASE k = "index" -> index
        [] k = "length" -> length
        [] k = "text" -> text
        [] k = "duration" -> duration
        [] OTHER -> IF k = key THEN u ELSE undefined] :
     key \in UserKeys, u \in Users, index \in Indices, length \in OneLength,
     text \in OneText, duration \in Durations}

\* the handler's insertAt(params), run for the command insert-at
HandlerInsertAt(params) ==
  InsertAt(params["index"], params["text"], paramUserId(params))

\* the handler's lockRange(params), run for the command lock-range
HandlerLockRange(params) ==
  LockRange(paramUserId(params), params["index"], params["length"], params["duration"])

----------------------------------------------------------------------------
(* The control bus (src/unnamed/part_009): WoolfDirectorBridge in the       *)
(* script frame, WoolfWorkerBridge in the application frame, and the        *)
(* postMessage channel between them, which delivers each envelope once, in  *)
(* any order.  A promise is settled by the first call of resolve or reject; *)
(* settles counts the calls.                                               *)

RequestTimeout == 30000
Elapses == {RequestTimeout \div 2}

docAll == <<docVars, lockVars, suggVars, txnVars, corrVars, subVars, streamVars, annVars,
           outVars>>

CommandTimeoutMsg(command) == "Command timeout: " \o command
UnknownErrorMsg == "Unknown error"

\* the promise after resolve(value) or reject(value) is called on it
settle(future, state, value) ==
  IF future.state = "pending"
  THEN [future EXCEPT !.state = state, !.value = value, !.settles = @ + 1]
  ELSE [future EXCEPT !.settles = @ + 1]

\* futures with the handlers stored under requestId called
settleRequest(fs, requestId, state, value) ==
  [k \in DOMAIN fs |->
     IF fs[k].requestId = requestId THEN settle(fs[k], state, value) ELSE fs[k]]

\* run(command): the next requestId, the handlers stored, the envelope posted,
\* the timeout scheduled
Run(command) ==
  LET requestId == requestCounter + 1 IN
  /\ requestCounter' = requestId
  /\ pendingRequests' = pendingRequests \cup {requestId}
  /\ futures' = Append(futures, [requestId |-> requestId, command |-> command,
                                 state |-> "pending", value |-> undefined, settles |-> 0])
  /\ toWorker' = toWorker \cup {[type |-> "woolf-control", command |-> command,
                                  requestId |-> requestId]}
  /\ busTimers' = busTimers \cup {[requestId |-> requestId, command |-> command,
                                    due |-> now + RequestTimeout]}
  /\ ret' = Returned("run", "ok", FALSE)
  /\ UNCHANGED <<docAll, now, toDirector, listening>>

\* the setTimeout callback of run
RunTimeout(timer) ==
  /\ timer \in busTimers
  /\ now >= timer.due
  /\ busTimers' = busTimers \ {timer}
  /\ IF timer.requestId \in pendingRequests
     THEN /\ pendingRequests' = pendingRequests \ {timer.requestId}
          /\ futures' = settleRequest(futures, timer.requestId, "rejected",
                                      CommandTimeoutMsg(timer.command))
     ELSE UNCHANGED <<pendingRequests, futures>>
  /\ ret' = Returned("runTimeout", "ok", FALSE)
  /\ UNCHANGED <<docAll, now, requestCounter, toWorker, toDirector, listening>>

\* mutant: the response carries the requestId of the request before
controlResponseOfLast(data, success, result, error) ==
  [type |-> "woolf-control-response", requestId |-> data.requestId - 1,
   success |-> success,
   result |-> IF success THEN result ELSE undefined,
   error |-> IF success THEN undefined ELSE error]

\* the envelope posted in the try block (success) or in the catch block
controlResponse(data, success, result, error) ==
  [type |-> "woolf-control-response", requestId |-> data.requestId,
   success |-> success,
   result |-> IF success THEN result ELSE undefined,
   error |-> IF success THEN undefined ELSE error]

\* mutant: the error of a failed command escapes the handler
HandleControlMessageRethrows(data, success, result, error) ==
  /\ data \in toWorker
  /\ toWorker' = toWorker \ {data}
  /\ toDirector' =
       IF success
       THEN toDirector \cup
              {[type |-> "woolf-control-response", requestId |-> data.requestId,
                success |-> TRUE, result |-> result, error |-> undefined]}
       ELSE toDirector
  /\ ret' = Returned("handleControlMessage", IF success THEN "ok" ELSE error, ~ success)
  /\ UNCHANGED <<docAll, now, requestCounter, pendingRequests, futures, busTimers,
                 listening>>

\* WoolfWorkerBridge.handleControlMessage: the command is run and one response
\* envelope with the requestId of the request is posted; the command succeeds
\* with result or throws an error with message error
HandleControlMessage(data, success, result, error) ==
  /\ data \in toWorker
  /\ toWorker' = toWorker \ {data}
  /\ toDirector' = toDirector \cup {controlResponse(data, success, result, error)}
  /\ ret' = Returned("handleControlMessage", "ok", FALSE)
  /\ UNCHANGED <<docAll, now, requestCounter, pendingRequests, futures, busTimers,
                 listening>>

\* mutant: the response settles the oldest pending request
HandleControlResponseOldest(data) ==
  /\ data \in toDirector
  /\ toDirector' = toDirector \ {data}
  /\ IF listening /\ pendingRequests # {}
     THEN LET oldest == CHOOSE r \in pendingRequests : \A q \in pendingRequests : r <= q
          IN  /\ pendingRequests' = pendingRequests \ {oldest}
              /\ futures' = settleRequest(futures, oldest,
                                          IF data.success THEN "resolved" ELSE "rejected",
                                          IF data.success THEN data.result ELSE data.error)
     ELSE UNCHANGED <<pendingRequests, futures>>
  /\ ret' = Returned("handleResponse", "ok", FALSE)
  /\ UNCHANGED <<docAll, now, requestCounter, busTimers, toWorker, listening>>

\* handleResponse of a woolf-control-response, that is handleControlResponse;
\* after destroy the listener is gone and the envelope is lost
HandleControlResponse(data) ==
  /\ data \in toDirector
  /\ toDirector' = toDirector \ {data}
  /\ IF listening /\ data.requestId \in pendingRequests
     THEN /\ pendingRequests' = pendingRequests \ {data.requestId}
          /\ futures' =
               IF data.success
               THEN settleRequest(futures, data.requestId, "resolved", data.result)
               ELSE settleRequest(futures, data.requestId, "rejected",
                                  IF data.error = "" THEN UnknownErrorMsg ELSE data.error)
     ELSE UNCHANGED <<pendingRequests, futures>>
  /\ ret' = Returned("handleResponse", "ok", FALSE)
  /\ UNCHANGED <<docAll, now, requestCounter, busTimers, toWorker, listening>>

\* the woolf-control-response envelopes a message event can carry to the
\* director's window: the listener takes every message event, whoever posted it
ResponseEnvelopes ==
  {[type |-> "woolf-control-response", requestId |-> id, success |-> success,
    result |-> IF success THEN "done" ELSE undefined,
    error |-> IF success THEN undefined ELSE "Command failed"] :
     id \in 0..(MaxStrayRequests + 1), success \in BOOLEAN}

\* mutant: the promise of the envelope's requestId is settled again
HandleResponseResettles(data) ==
  /\ listening
  /\ IF data.requestId \in pendingRequests
     THEN pendingRequests' = pendingRequests \ {data.requestId}
     ELSE UNCHANGED pendingRequests
  /\ futures' =
       IF data.success
       THEN settleRequest(futures, data.requestId, "resolved", data.result)
       ELSE settleRequest(futures, data.requestId, "rejected",
                          IF data.error = "" THEN UnknownErrorMsg ELSE data.error)
  /\ ret' = Returned("handleResponse", "ok", FALSE)
  /\ UNCHANGED <<docAll, now, requestCounter, busTimers, toWorker, toDirector, listening>>

\* handleResponse of a message event that is not the worker's one response to a
\* request: a duplicate, or an envelope with a requestId of its poster's making
HandleResponse(data) ==
  /\ listening
  /\ IF data.requestId \in pendingRequests
     THEN /\ pendingRequests' = pendingRequests \ {data.requestId}
          /\ futures' =
               IF data.success
               THEN settleRequest(futures, data.requestId, "resolved", data.result)
               ELSE settleRequest(futures, data.requestId, "rejected",
                                  IF data.error = "" THEN UnknownErrorMsg ELSE data.error)
     ELSE UNCHANGED <<pendingRequests, futures>>
  /\ ret' = Returned("handleResponse", "ok", FALSE)
  /\ UNCHANGED <<docAll, now, requestCounter, busTimers, toWorker, toDirector, listening>>

\* destroy(): the listener is removed and the handlers are dropped
Destroy ==
  /\ listening' = FALSE
  /\ pendingRequests' = {}
  /\ ret' = Returned("destroy", "ok", FALSE)
  /\ UNCHANGED <<docAll, now, requestCounter, futures, busTimers, toWorker, toDirector>>

\* time passes
Elapse(dt) ==
  /\ now' = now + dt
  /\ UNCHANGED <<docAll, busVars, ret>>

----------------------------------------------------------------------------
(* The document after construction, and the calls a client can make *)

Init ==
  /\ quill = InitialText
  /\ version = 0
  /\ changeLog = <<>>
  /\ rangeLocks = <<>>
  /\ lockCounter = 0
  /\ timers = {}
  /\ now = 0
  /\ suggestions = <<>>
  /\ suggestionCounter = 0
  /\ currentTransaction = null
  /\ beginQuill = InitialText
  /\ corrections = <<>>
  /\ correctionCounter = 0
  /\ requestCounter = 0
  /\ pendingRequests = {}
  /\ futures = <<>>
  /\ busTimers = {}
  /\ toWorker = {}
  /\ toDirector = {}
  /\ listening = TRUE
  /\ changeSubscribers = <<>>
  /\ subscriberCounter = 0
  /\ director = [requestIdCounter |-> 0, pendingRequests |-> <<>>, streamId |-> null,
                 promises |-> <<>>, toWorker |-> {}, inbox |-> {}, timers |-> {}]
  /\ delivered = <<>>
  /\ eventStreams = <<>>
  /\ streamIdCounter = 0
  /\ posted = <<>>
  /\ annotations = <<>>
  /\ annotationCounter = 0
  /\ ret = Returned("constructor", "ok", FALSE)

\* a mutation primitive called by user u
EditBy(u) ==
  \/ \E i \in Indices, t \in Texts : InsertAt(i, t, u)
  \/ \E i \in Indices, n \in Lengths : DeleteRange(i, n, u)
  \/ \E i \in Indices, n \in Lengths, t \in Texts : ReplaceRange(i, n, t, u)
  \/ \E d \in Deltas : ApplyDelta(d, u)

\* the part of the state space that is explored
Bounded ==
  /\ version' <= MaxVersion
  /\ lockCounter' <= MaxLocks
  /\ now' <= MaxTime
  /\ suggestionCounter' <= MaxSuggestions
  /\ correctionCounter' <= MaxCorrections
  /\ requestCounter' <= MaxRequests
  /\ subscriberCounter' <= MaxSubscribers
  /\ streamIdCounter' <= MaxStreams
  /\ annotationCounter' <= MaxIdCalls
  /\ director'.requestIdCounter <= MaxDirectorRequests

BoundedLock ==
  /\ version' <= MaxLockedEdits
  /\ lockCounter' <= MaxLocks
  /\ now' <= MaxTime

Next ==
  \/ \E i \in Indices, t \in Texts, u \in Users : InsertAt(i, t, u) /\ Bounded
  \/ \E i \in Indices, n \in Lengths, u \in Users : DeleteRange(i, n, u) /\ Bounded
  \/ \E i \in Indices, n \in Lengths, t \in Texts, u \in Users :
       ReplaceRange(i, n, t, u) /\ Bounded
  \/ \E d \in Deltas, u \in Users : ApplyDelta(d, u) /\ Bounded
  \/ \E u \in Users, i \in Indices, n \in Lengths, d \in Durations :
       LockRange(u, i, n, d) /\ Bounded
  \/ \E id \in 1..(MaxLocks + 1), u \in Users : UnlockRange(id, u)
  \/ \E timer \in timers : LockTimer(timer)
  \/ Tick /\ Bounded
  \/ \E u \in Users, i \in Indices, n \in Lengths, t \in Texts :
       SuggestEdit(u, i, n, t) /\ Bounded
  \/ \E id \in 1..(MaxSuggestions + 1), u \in Users : AcceptSuggestion(id, u) /\ Bounded
  \/ \E id \in 1..(MaxSuggestions + 1), u \in Users, r \in Reasons :
       RejectSuggestion(id, u, r)
  \/ \E u \in Users : BeginTransaction(u)
  \/ CommitTransaction
  \/ RollbackTransaction
  \/ \E u \in Users, i \in Indices, n \in Lengths, c \in Texts :
       ApplyQuickCorrection(u, i, n, getText(quill, i, n), c, Alternates) /\ Bounded
  \/ \E id \in 1..(MaxCorrections + 1), u \in Users : RevertCorrection(id, u) /\ Bounded
  \/ \E id \in 1..(MaxCorrections + 1), k \in (-1)..Len(Alternates), u \in Users :
       SwitchToAlternate(id, k, u) /\ Bounded
  \/ \E c \in Commands : Run(c) /\ Bounded
  \/ \E timer \in busTimers : RunTimeout(timer)
  \/ \E data \in toWorker, success \in BOOLEAN, r \in Results, e \in Errors :
       HandleControlMessage(data, success, r, e)
  \/ \E data \in toDirector : HandleControlResponse(data)
  \/ \E data \in ResponseEnvelopes : HandleResponse(data)
  \/ Destroy
  \/ \E dt \in Elapses : Elapse(dt) /\ Bounded
  \/ \E callback \in Callbacks : Subscribe(callback) /\ Bounded
  \/ \E id \in 1..(MaxSubscribers + 1) : Unsubscribe(id)
  \/ \E filters \in StreamFilters : RegisterEventStream(filters) /\ Bounded
  \/ \E id \in 1..(MaxStreams + 1) : UnregisterEventStream(id)
  \/ \E callback \in ClientCallbacks :
       SubscribeFiltered(callback, [userId |-> callback.wants]) /\ Bounded
  \/ \E delta \in Deltas, source \in Sources : HandleTextChange(delta, source) /\ Bounded
  \/ \E u \in Users, i \in Indices, n \in Lengths, t \in AnnotationTexts,
        ty \in AnnotationTypes : Annotate(u, i, n, t, ty) /\ Bounded
  \/ \E id \in 1..(MaxIdCalls + 1) : DeleteAnnotation(id)
  \/ \E v \in 0..MaxVersion : RevertToVersion(v)
  \/ \E params \in CommandParams : HandlerInsertAt(params) /\ Bounded
  \/ \E params \in CommandParams : HandlerLockRange(params) /\ Bounded
  \/ \E filters \in StreamFilters : DirectorRegisterStream(filters) /\ Bounded
  \/ \E command \in Commands : DirectorRun(command) /\ Bounded
  \/ \E requestId \in 1..MaxDirectorRequests : DirectorTimeout(requestId)
  \/ \E data \in DirectorMessages : DirectorHandleMessage(data)
  \/ \E data \in director.inbox : DirectorReceive(data)
  \/ \E data \in director.toWorker, success \in BOOLEAN, r \in Results, e \in Errors :
       StreamHandleControl(data, success, r, e)
  \/ \E data \in director.toWorker : StreamHandleRegister(data) /\ Bounded

Spec == Init /\ [][Next]_vars

\* The document driven through one part of its interface at a time.

\* mutation primitives and transactions
NextTxn ==
  \/ \E i \in Indices, t \in OneText, u \in Users : InsertAt(i, t, u) /\ Bounded
  \/ \E i \in Indices, n \in OneLength, u \in Users : DeleteRange(i, n, u) /\ Bounded
  \/ \E i \in Indices, n \in OneLength, t \in OneText, u \in Users :
       ReplaceRange(i, n, t, u) /\ Bounded
  \/ \E d \in Deltas, u \in Users : ApplyDelta(d, u) /\ Bounded
  \/ \E u \in Users : BeginTransaction(u)
  \/ CommitTransaction
  \/ RollbackTransaction

SpecTxn == Init /\ [][NextTxn]_vars

\* mutation primitives and range locks
NextLock ==
  \/ \E i \in Indices, t \in OneText, u \in Users : InsertAt(i, t, u) /\ BoundedLock
  \/ \E i \in Indices, n \in Lengths, u \in Users : DeleteRange(i, n, u) /\ BoundedLock
  \/ \E i \in Indices, n \in Lengths, t \in OneText, u \in Users :
       ReplaceRange(i, n, t, u) /\ BoundedLock
  \/ \E d \in Deltas, u \in Users : ApplyDelta(d, u) /\ BoundedLock
  \/ \E u \in Users, i \in Indices, n \in OneLength, d \in Durations :
       LockRange(u, i, n, d) /\ BoundedLock
  \/ \E id \in 1..(MaxLocks + 1), u \in Users : UnlockRange(id, u)
  \/ \E timer \in timers : LockTimer(timer)
  \/ Tick /\ BoundedLock

SpecLock == Init /\ [][NextLock]_vars

\* insertion, range locks and their release by the owner or by the timer; a
\* lock is taken only while the clock that is explored can still reach its expiry
BoundedRelease ==
  /\ version' + lockCounter' <= MaxReleaseCalls
  /\ now' <= MaxTime
  /\ \A k \in DOMAIN rangeLocks' : rangeLocks'[k].expiresAt <= MaxTime

NextRelease ==
  \/ \E i \in OneIndex, t \in OneText, u \in Users : InsertAt(i, t, u) /\ BoundedRelease
  \/ \E u \in Users, i \in OneIndex, n \in OneLength, d \in Durations :
       LockRange(u, i, n, d) /\ BoundedRelease
  \/ \E id \in 1..MaxReleaseCalls, u \in Users : UnlockRange(id, u)
  \/ \E timer \in timers : LockTimer(timer)
  \/ Tick /\ BoundedRelease

SpecRelease == Init /\ [][NextRelease]_vars

\* The event loop runs a setTimeout callback that is due, and time passes.
SpecReleaseFair ==
  /\ SpecRelease
  /\ WF_vars(\E timer \in timers : LockTimer(timer))
  /\ WF_vars(Tick /\ BoundedRelease)

\* quick corrections by one user, called with the text of the range as original,
\* and range locks of the other user
BoundedCorr ==
  /\ version' <= MaxCorrVersion
  /\ correctionCounter' <= MaxCorrections
  /\ lockCounter' <= MaxCorrLocks

NextCorr ==
  \/ \E u \in Correctors, i \in FirstIndex, n \in Lengths, c \in Texts :
       ApplyQuickCorrection(u, i, n, getText(quill, i, n), c, Alternates) /\ BoundedCorr
  \/ \E id \in 1..(MaxCorrections + 1), u \in Correctors :
       RevertCorrection(id, u) /\ BoundedCorr
  \/ \E id \in 1..(MaxCorrections + 1), k \in (-1)..Len(Alternates), u \in Correctors :
       SwitchToAlternate(id, k, u) /\ BoundedCorr
  \/ \E u \in Users \ Correctors, i \in Indices, n \in OneLength, d \in Durations :
       LockRange(u, i, n, d) /\ BoundedCorr

SpecCorr == Init /\ [][NextCorr]_vars

\* the control bus: the director, the worker and the channel
BoundedBus ==
  /\ requestCounter' <= MaxRequests
  /\ now' <= MaxBusSteps * (RequestTimeout \div 2)

NextBus ==
  \/ \E c \in Commands : Run(c) /\ BoundedBus
  \/ \E timer \in busTimers : RunTimeout(timer)
  \/ \E data \in toWorker, success \in BOOLEAN, r \in Results, e \in Errors :
       HandleControlMessage(data, success, r, e)
  \/ \E data \in toDirector : HandleControlResponse(data)
  \/ Destroy
  \/ \E dt \in Elapses : Elapse(dt) /\ BoundedBus

SpecBus == Init /\ [][NextBus]_vars

\* the control bus with message events that are not the worker's one response
BoundedResponses ==
  /\ requestCounter' <= MaxStrayRequests
  /\ now' <= MaxBusSteps * (RequestTimeout \div 2)

NextResponses ==
  \/ \E c \in Commands : Run(c) /\ BoundedResponses
  \/ \E timer \in busTimers : RunTimeout(timer)
  \/ \E data \in toWorker, success \in BOOLEAN, r \in Results, e \in Errors :
       HandleControlMessage(data, success, r, e)
  \/ \E data \in toDirector : HandleControlResponse(data)
  \/ \E data \in ResponseEnvelopes : HandleResponse(data)
  \/ Destroy
  \/ \E dt \in Elapses : Elapse(dt) /\ BoundedResponses

SpecResponses == Init /\ [][NextResponses]_vars

\* event streams of the bridge over a document that is edited
BoundedStream ==
  /\ version' <= MaxStreamVersion
  /\ streamIdCounter' <= MaxStreams

NextStream ==
  \/ \E i \in Indices, t \in Texts, u \in Users : InsertAt(i, t, u) /\ BoundedStream
  \/ \E filters \in StreamFilters : RegisterEventStream(filters) /\ BoundedStream
  \/ \E id \in 1..(MaxStreams + 1) : UnregisterEventStream(id)

SpecStream == Init /\ [][NextStream]_vars

\* change subscriptions of a document that is edited
BoundedSub ==
  /\ version' <= MaxSubVersion
  /\ subscriberCounter' <= MaxSubscribers

NextSub ==
  \/ \E i \in FirstIndex, t \in Texts, u \in Users : InsertAt(i, t, u) /\ BoundedSub
  \/ \E callback \in Callbacks : Subscribe(callback) /\ BoundedSub
  \/ \E id \in 1..(MaxSubscribers + 1) : Unsubscribe(id)

SpecSub == Init /\ [][NextSub]_vars

\* the change log filled past its capacity: one user inserts a character at
\* the start of the text and deletes it again, over and over
BoundedLog ==
  /\ version' <= maxLogSize + MaxLogOverflow
  /\ Len(quill') \in (MaxLogText - 1)..MaxLogText

NextLog ==
  \/ \E i \in FirstIndex, t \in OneText, u \in Correctors : InsertAt(i, t, u) /\ BoundedLog
  \/ \E i \in FirstIndex, n \in OneLength, u \in Correctors :
       DeleteRange(i, n, u) /\ BoundedLog

SpecLog == Init /\ [][NextLog]_vars

\* the correction store filled past its capacity: one user corrects the first
\* character of the text over and over
BoundedStore == correctionCounter' <= maxCorrections + MaxCorrOverflow

NextStore ==
  \E u \in Correctors, i \in FirstIndex, n \in OneLength, c \in OneText :
    ApplyQuickCorrection(u, i, n, getText(quill, i, n), c, Alternates) /\ BoundedStore

SpecStore == Init /\ [][NextStore]_vars

\* calls that name a lock, suggestion, correction or annotation by its id
BoundedIds ==
  /\ version' <= MaxIdVersion
  /\ lockCounter' + suggestionCounter' + correctionCounter' + annotationCounter' <= MaxIdCalls

NextIds ==
  \/ \E u \in Users, i \in FirstIndex, n \in OneLength, d \in Durations :
       LockRange(u, i, n, d) /\ BoundedIds
  \/ \E id \in 1..(MaxIdCalls + 1), u \in Users : UnlockRange(id, u)
  \/ \E u \in Users, i \in FirstIndex, n \in OneLength, t \in OneText :
       SuggestEdit(u, i, n, t) /\ BoundedIds
  \/ \E id \in 1..(MaxIdCalls + 1), u \in Users : AcceptSuggestion(id, u) /\ BoundedIds
  \/ \E id \in 1..(MaxIdCalls + 1), u \in Users, r \in Reasons : RejectSuggestion(id, u, r)
  \/ \E u \in Users, i \in FirstIndex, n \in OneLength, c \in OneText :
       ApplyQuickCorrection(u, i, n, getText(quill, i, n), c, Alternates) /\ BoundedIds
  \/ \E id \in 1..(MaxIdCalls + 1), u \in Users : RevertCorrection(id, u) /\ BoundedIds
  \/ \E id \in 1..(MaxIdCalls + 1), k \in 0..(Len(Alternates) - 1), u \in Users :
       SwitchToAlternate(id, k, u) /\ BoundedIds
  \/ \E u \in Users, i \in FirstIndex, n \in OneLength, t \in AnnotationTexts,
        type \in AnnotationTypes :
       Annotate(u, i, n, t, type) /\ BoundedIds
  \/ \E id \in 1..(MaxIdCalls + 1) : DeleteAnnotation(id)

SpecIds == Init /\ [][NextIds]_vars

\* commands run through the handler
BoundedHandler ==
  /\ version' <= MaxHandlerVersion
  /\ lockCounter' <= MaxHandlerLocks

NextHandler ==
  \/ \E params \in CommandParams : HandlerInsertAt(params) /\ BoundedHandler
  \/ \E params \in CommandParams : HandlerLockRange(params) /\ BoundedHandler

SpecHandler == Init /\ [][NextHandler]_vars

\* a document that is edited and reverted to earlier versions
BoundedRevert == version' <= MaxRevertVersion

NextRevert ==
  \/ \E i \in Indices, t \in Texts, u \in Users : InsertAt(i, t, u) /\ BoundedRevert
  \/ \E targetVersion \in 0..MaxRevertVersion : RevertToVersion(targetVersion)

SpecRevert == Init /\ [][NextRevert]_vars

\* change subscriptions made with a filter
NextFilter ==
  \/ \E i \in FirstIndex, t \in OneText, u \in Users : InsertAt(i, t, u) /\ BoundedSub
  \/ \E callback \in ClientCallbacks :
       SubscribeFiltered(callback, [userId |-> callback.wants]) /\ BoundedSub
  \/ \E id \in 1..(MaxSubscribers + 1) : Unsubscribe(id)

SpecFilter == Init /\ [][NextFilter]_vars

\* range locks of every length, their release, and mutations
BoundedOverlap ==
  /\ version' + lockCounter' <= MaxOverlapCalls
  /\ now' <= MaxTime

NextOverlap ==
  \/ \E i \in FirstIndex, t \in OneText, u \in Users : InsertAt(i, t, u) /\ BoundedOverlap
  \/ \E u \in Users, i \in Indices, n \in Lengths, d \in Durations :
       LockRange(u, i, n, d) /\ BoundedOverlap
  \/ \E id \in 1..MaxOverlapCalls, u \in Users : UnlockRange(id, u)
  \/ \E timer \in timers : LockTimer(timer)
  \/ Tick /\ BoundedOverlap

SpecOverlap == Init /\ [][NextOverlap]_vars

\* the change log filled past its capacity by typed changes, with calls that a
\* lock rejects at any time, and with successful insertions and API edits of
\* the editor early on; the one lock is taken while none is held
BoundedHistory ==
  /\ version' <= maxLogSize + MaxLogOverflow
  /\ Len(quill') \in (MaxLogText - 1)..MaxLogText

NextHistory ==
  \/ \E delta \in Deltas : HandleTextChange(delta, "user") /\ BoundedHistory
  \/ \E delta \in Deltas :
       HandleTextChange(delta, "api") /\ BoundedHistory /\ version' <= MaxEarlyVersion
  \/ \E i \in OneIndex, t \in OneText, u \in Intruders :
       /\ InsertAt(i, t, u)
       /\ BoundedHistory
       /\ (version' = version \/ version' <= MaxEarlyVersion)
  \/ \E u \in Correctors, i \in OneIndex, n \in OneLength, d \in Durations :
       rangeLocks = <<>> /\ LockRange(u, i, n, d) /\ BoundedHistory

SpecHistory == Init /\ [][NextHistory]_vars

\* the director of the event stream: its calls, its timeouts, the message
\* events of its window, and the worker that handles what it posts
BoundedDirector == director'.requestIdCounter <= MaxDirectorRequests

NextDirector ==
  \/ \E filters \in StreamFilters : DirectorRegisterStream(filters) /\ BoundedDirector
  \/ \E command \in Commands : DirectorRun(command) /\ BoundedDirector
  \/ \E requestId \in 1..MaxDirectorRequests : DirectorTimeout(requestId)
  \/ \E data \in DirectorMessages : DirectorHandleMessage(data)
  \/ \E data \in director.inbox : DirectorReceive(data)
  \/ \E data \in director.toWorker, success \in BOOLEAN, r \in Results, e \in Errors :
       StreamHandleControl(data, success, r, e)
  \/ \E data \in director.toWorker : StreamHandleRegister(data)

SpecDirector == Init /\ [][NextDirector]_vars

\* suggestions, range locks and their release
BoundedAccept ==
  /\ suggestionCounter' <= MaxSuggestions
  /\ lockCounter' <= MaxCorrLocks
  /\ version' <= MaxSuggestions

NextAccept ==
  \/ \E u \in Correctors, i \in Indices, n \in Lengths, t \in OneText :
       SuggestEdit(u, i, n, t) /\ BoundedAccept
  \/ \E u \in Users, i \in Indices, n \in OneLength, d \in Durations :
       LockRange(u, i, n, d) /\ BoundedAccept
  \/ \E id \in 1..MaxCorrLocks, u \in Users : UnlockRange(id, u)
  \/ \E id \in 1..MaxSuggestions, u \in Users : AcceptSuggestion(id, u) /\ BoundedAccept

SpecAccept == Init /\ [][NextAccept]_vars

\* suggestions
NextSugg ==
  \/ \E u \in Users, i \in Indices, n \in Lengths, t \in Texts :
       SuggestEdit(u, i, n, t) /\ Bounded
  \/ \E id \in 1..(MaxSuggestions + 1), u \in Users : AcceptSuggestion(id, u)
  \/ \E id \in 1..(MaxSuggestions + 1), u \in Users, r \in Reasons :
       RejectSuggestion(id, u, r)

SpecSugg == Init /\ [][NextSugg]_vars

----------------------------------------------------------------------------
(* Version counter and change log *)

Last(seq) == seq[Len(seq)]

PrimitiveOps == {"insertAt", "deleteRange", "replaceRange", "applyDelta"}

\* the step is a call of one of the methods ops (every call sets ret; only the
\* passing of time leaves it)
Called(ops) == ret'.op \in ops /\ now' = now

C10_RecordVersionIsDocVersion ==
  [][changeLog' # changeLog =>
       /\ Len(changeLog') > 0
       /\ Last(changeLog').version = version'
       /\ \A k \in 1..(Len(changeLog') - Len(changeLog)) :
            changeLog'[Len(changeLog) + k].version = version + k]_vars

C10_Witness ==
  /\ Len(changeLog) = 2
  /\ Last(changeLog).type = "replace"
  /\ Last(changeLog).version = 2
  /\ ret = Returned("replaceRange", "ok", FALSE)

----------------------------------------------------------------------------
(* Transactions *)

\* C2: while a transaction is open, a mutation primitive called by the
\* transaction's owner is buffered: the editor text, the version and the change
\* log stay as they are.
C2_BufferedInTransaction ==
  [][(currentTransaction # null
      /\ EditBy(currentTransaction.userId))
        => UNCHANGED <<quill, version, changeLog>>]_vars

\* C3: committing a transaction in which calls were made leaves the version at
\* the version of begin plus 1, with exactly one record after the version of begin.
C3_CommitIsOneVersion ==
  [][(currentTransaction # null /\ CommitTransaction /\ ret'.status = "ok"
      /\ version # currentTransaction.startVersion)
        => /\ version' = currentTransaction.startVersion + 1
           /\ Len(getChangesSince(changeLog', currentTransaction.startVersion)) = 1]_vars

\* C4: rolling back leaves the version and the editor text as they were at begin.
C4_RollbackRestores ==
  [][(currentTransaction # null /\ RollbackTransaction /\ ret'.status = "ok")
        => /\ version' = currentTransaction.startVersion
           /\ quill' = beginQuill]_vars

TransactionOps == {"beginTransaction", "commitTransaction", "rollbackTransaction"}

\* C11: the coordinator is closed or holds one open transaction.  Begin while
\* one is open throws and leaves it untouched; begin while closed succeeds and
\* opens one; commit or rollback while closed throws; commit or rollback of the
\* open transaction succeeds and closes, so that the next begin succeeds; no
\* other call opens, closes or changes a transaction.
C11_TransactionStateMachine ==
  [][/\ (Called({"beginTransaction"}) /\ currentTransaction # null)
          => /\ ret' = Returned("beginTransaction", TransactionInProgressMsg, TRUE)
             /\ currentTransaction' = currentTransaction
     /\ (Called({"beginTransaction"}) /\ currentTransaction = null)
          => /\ ret' = Returned("beginTransaction", "ok", FALSE)
             /\ currentTransaction' # null
             /\ currentTransaction'.startVersion = version
     /\ (Called({"commitTransaction", "rollbackTransaction"}) /\ currentTransaction = null)
          => /\ ret' = Returned(ret'.op, NoTransactionMsg, TRUE)
             /\ currentTransaction' = null
     /\ (Called({"commitTransaction", "rollbackTransaction"}) /\ currentTransaction # null)
          => /\ ret' = Returned(ret'.op, "ok", FALSE)
             /\ currentTransaction' = null
     /\ currentTransaction' # currentTransaction => Called(TransactionOps)]_vars

\* a begin refused while a transaction, begun after a mutation, is open
C11_Witness ==
  /\ ret = Returned("beginTransaction", TransactionInProgressMsg, TRUE)
  /\ currentTransaction # null
  /\ currentTransaction.startVersion = 1

----------------------------------------------------------------------------
(* Range locks *)

\* the half-open ranges [index, index + length) and range share a position
Intersects(index, length, range) ==
  \E p \in index..(index + length - 1) :
    range.index <= p /\ p < range.index + range.length

\* a lock that has not expired, held by another user than userId, over the range
LiveLockOfOther(userId, index, length) ==
  \E k \in DOMAIN rangeLocks :
    /\ rangeLocks[k].userId # userId
    /\ now <= rangeLocks[k].expiresAt
    /\ Intersects(index, length, rangeLocks[k].range)

Rejected == ret' = Returned(ret'.op, RangeLockedMsg, TRUE) /\ UNCHANGED docVars

\* the positions a delta touches
deltaLength(delta) == delta.delete + Len(delta.insert)

\* C5: a mutation (insert, delete, replace or delta) by a user over a range on
\* which another user holds a live lock fails with the range-locked error and
\* leaves text, version and change log unchanged; with no such lock it succeeds.
C5_LockBlocksOthers ==
  [][\A u \in Users :
       /\ \A i \in Indices, t \in Texts :
            InsertAt(i, t, u) =>
              IF LiveLockOfOther(u, i, Len(t)) THEN Rejected ELSE ret'.status = "ok"
       /\ \A i \in Indices, n \in Lengths :
            DeleteRange(i, n, u) =>
              IF LiveLockOfOther(u, i, n) THEN Rejected ELSE ret'.status = "ok"
       /\ \A i \in Indices, n \in Lengths, t \in Texts :
            ReplaceRange(i, n, t, u) =>
              IF LiveLockOfOther(u, i, n) THEN Rejected ELSE ret'.status = "ok"
       /\ \A d \in Deltas :
            ApplyDelta(d, u) =>
              IF LiveLockOfOther(u, d.retain, deltaLength(d)) THEN Rejected
              ELSE ret'.status = "ok"]_vars

\* C6: lockRange succeeds exactly when no lock that has not expired, held by
\* another user, overlaps the requested range.
C6_LockIffNoLiveOverlap ==
  [][\A u \in Users, i \in Indices, n \in Lengths, d \in Durations :
       LockRange(u, i, n, d) =>
         (ret'.status = "ok" <=>
            ~ \E k \in DOMAIN rangeLocks :
                /\ rangeLocks[k].userId # u
                /\ now <= rangeLocks[k].expiresAt
                /\ rangesOverlap([index |-> i, length |-> n], rangeLocks[k].range))]_vars

\* C7: no mutation primitive, the delta included, changes the editor text when
\* another user holds a live lock over the range it touches.
C7_EveryPrimitiveChecksLocks ==
  [][\A u \in Users :
       /\ \A i \in Indices, t \in Texts :
            (InsertAt(i, t, u) /\ LiveLockOfOther(u, i, Len(t))) => quill' = quill
       /\ \A i \in Indices, n \in Lengths :
            (DeleteRange(i, n, u) /\ LiveLockOfOther(u, i, n)) => quill' = quill
       /\ \A i \in Indices, n \in Lengths, t \in Texts :
            (ReplaceRange(i, n, t, u) /\ LiveLockOfOther(u, i, n)) => quill' = quill
       /\ \A d \in Deltas :
            (ApplyDelta(d, u) /\ LiveLockOfOther(u, d.retain, deltaLength(d)))
              => quill' = quill]_vars

\* C5 and C7 without the delta: insertAt, deleteRange and replaceRange by a user
\* over a range with a live lock of another user are rejected with no effect.
RangePrimitivesRespectLocks ==
  [][\A u \in Users :
       /\ \A i \in Indices, t \in Texts :
            (InsertAt(i, t, u) /\ LiveLockOfOther(u, i, Len(t))) => Rejected
       /\ \A i \in Indices, n \in Lengths :
            (DeleteRange(i, n, u) /\ LiveLockOfOther(u, i, n)) => Rejected
       /\ \A i \in Indices, n \in Lengths, t \in Texts :
            (ReplaceRange(i, n, t, u) /\ LiveLockOfOther(u, i, n)) => Rejected]_vars

----------------------------------------------------------------------------
(* Release of range locks *)

Held(lockId) == \E k \in DOMAIN rangeLocks : rangeLocks[k].lockId = lockId

\* in document d at time t, lock rejects every insertAt, deleteRange and
\* replaceRange of user v over a range that meets the range of lock
Blocks(d, t, lock, v) ==
  /\ \A i \in Indices, x \in Texts :
       Intersects(i, Len(x), lock.range) => insertAt(d, t, i, x, v).err = RangeLockedMsg
  /\ \A i \in Indices, n \in Lengths :
       Intersects(i, n, lock.range) =>
         /\ deleteRange(d, t, i, n, v).err = RangeLockedMsg
         /\ \A x \in Texts : replaceRange(d, t, i, n, x, v).err = RangeLockedMsg

\* C12: unlockRange of a lock by a user who does not own it throws the
\* permission error and leaves the lock in the table, where, until it expires,
\* it still rejects the range mutations of every user but its owner; called by
\* the owner it succeeds and removes the lock.
C12_OnlyOwnerUnlocks ==
  [][\A id \in 1..MaxReleaseCalls, u \in Users, k \in DOMAIN rangeLocks :
       (UnlockRange(id, u) /\ rangeLocks[k].lockId = id) =>
         IF rangeLocks[k].userId # u
         THEN /\ ret' = Returned("unlockRange", CannotUnlockMsg, TRUE)
              /\ rangeLocks' = rangeLocks
              /\ now' <= rangeLocks[k].expiresAt =>
                   \A v \in Users \ {rangeLocks[k].userId} :
                     Blocks(Doc', now', rangeLocks[k], v)
         ELSE /\ ret' = Returned("unlockRange", "ok", FALSE)
              /\ ~ Held(id)']_vars

C12_Witness ==
  /\ ret = Returned("unlockRange", CannotUnlockMsg, TRUE)
  /\ rangeLocks # <<>>
  /\ rangeLocks[1].userId = "user1"
  /\ now <= rangeLocks[1].expiresAt
  /\ insertAt(Doc, now, 1, <<"a">>, "user2").err = RangeLockedMsg

\* C13: a lock that is held is eventually no longer in the table (the timer
\* scheduled by lockRange removes it once the duration has elapsed, if nothing
\* removed it before), and an insertion over a range on which no other user
\* holds a live lock always succeeds.
C13_LockAutoReleased ==
  /\ \A id \in 1..MaxReleaseCalls : [](Held(id) => <>(~ Held(id)))
  /\ [](\A u \in Users, i \in Indices, x \in Texts :
          ~ LiveLockOfOther(u, i, Len(x)) => insertAt(Doc, now, i, x, u).err = "ok")

\* the timer has removed the lock, and the other user can insert
C13_Witness ==
  /\ ret = Returned("lockTimer", "ok", FALSE)
  /\ lockCounter = 1
  /\ rangeLocks = <<>>
  /\ timers = {}
  /\ version = 0
  /\ insertAt(Doc, now, 1, <<"a">>, "user2").err = "ok"

\* C14: a successful unlockRange removes exactly the lock it names, and an
\* insertion by another user that the table rejected before the unlock is
\* accepted after it, unless a further live lock of another user covers it.
C14_UnlockAdmitsOthers ==
  [][(Called({"unlockRange"}) /\ ret'.status = "ok") =>
       \E k \in DOMAIN rangeLocks :
         /\ rangeLocks' = SelectSeq(rangeLocks, LAMBDA l : l.lockId # rangeLocks[k].lockId)
         /\ \A v \in Users \ {rangeLocks[k].userId}, i \in Indices, x \in Texts :
              (insertAt(Doc, now, i, x, v).err = RangeLockedMsg
               /\ ~ LiveLockOfOther(v, i, Len(x))')
                => insertAt(Doc', now', i, x, v).err = "ok"]_vars

\* user1 locked, inserted and unlocked before the lock expired; user2 can insert
C14_Witness ==
  /\ ret = Returned("unlockRange", "ok", FALSE)
  /\ rangeLocks = <<>>
  /\ \E timer \in timers : timer.userId = "user1" /\ now <= timer.due
  /\ version = 1
  /\ changeLog[1].userId = "user1"
  /\ insertAt(Doc, now, 1, <<"a">>, "user2").err = "ok"

----------------------------------------------------------------------------
(* Quick corrections *)

CorrectionOps == {"applyQuickCorrection", "revertCorrection", "switchToAlternate"}

\* C15: in every state, applying a correction to a range that lies within the
\* buffer, with the text the buffer holds there as original, and then
\* reverting it, both calls succeeding, leaves the buffer as it was before the
\* correction, whatever the lengths of the original and of the correction, and
\* marks the correction reverted.
C15_ApplyThenRevertRestores ==
  \A u \in Users, v \in Users, i \in Indices, n \in Lengths, c \in Texts :
    LET original == getText(quill, i, n)
        applied == applyQuickCorrection(Doc, now, u, i, n, original, c, Alternates)
        reverted == revertCorrection(applied, now, applied.correctionCounter, v)
    IN  (Len(original) = n /\ applied.err = "ok" /\ reverted.err = "ok") =>
          /\ reverted.quill = quill
          /\ reverted.version = version + 4
          /\ getCorrection(reverted, applied.correctionCounter)[1].reverted

\* a correction of "st" by "a" has been applied and reverted
C15_Witness ==
  /\ ret = Returned("revertCorrection", "ok", FALSE)
  /\ version = 4
  /\ corrections # <<>>
  /\ corrections[1].reverted
  /\ corrections[1].original = <<"s", "t">>
  /\ corrections[1].applied = <<"a">>
  /\ quill = InitialText

\* C16: revertCorrection of a correction that is marked reverted throws and
\* leaves the text, the version and the change log as they are.
C16_SecondRevertFails ==
  [][\A k \in DOMAIN corrections, u \in Users :
       (RevertCorrection(corrections[k].correctionId, u) /\ corrections[k].reverted)
         => (ret'.thrown /\ UNCHANGED <<quill, version, changeLog>>)]_vars

\* C17: a switchToAlternate that succeeds was called with an index inside
\* alternates; it replaces the recorded range of the buffer by alternates[index]
\* and sets applied, the recorded length and the selected index of that record
\* alone, so that the buffer at the recorded range reads alternates[index],
\* after any number of switches; called with an index outside alternates it
\* throws and leaves buffer, version, log and records unchanged.
C17_SwitchToAlternate ==
  [][/\ (Called({"switchToAlternate"}) /\ ret'.status = "ok") =>
          \E j \in DOMAIN corrections, u \in Users :
            LET correction == corrections[j] IN
            \E k \in 0..(Len(correction.alternates) - 1) :
              LET alternate == correction.alternates[k + 1] IN
              /\ quill' = insertText(deleteText(quill, correction.range.index,
                                                correction.range.length),
                                     correction.range.index, alternate)
              /\ corrections' =
                   [corrections EXCEPT ![j] =
                      [correction EXCEPT !.applied = alternate,
                                         !.range.length = Len(alternate),
                                         !.alternateSelected = <<k>>,
                                         !.switchedBy = u]]
              /\ getText(quill', corrections'[j].range.index,
                         corrections'[j].range.length) = alternate
     /\ \A j \in DOMAIN corrections, u \in Users :
          \A k \in {-1, Len(corrections[j].alternates)} :
          SwitchToAlternate(corrections[j].correctionId, k, u) =>
            /\ ret' = Returned("switchToAlternate", AlternateOutOfRangeMsg(k), TRUE)
            /\ UNCHANGED <<quill, version, changeLog, corrections>>]_vars

\* two successive switches of a correction that was not reverted
C17_Witness ==
  /\ ret = Returned("switchToAlternate", "ok", FALSE)
  /\ version = 6
  /\ Len(corrections) = 1
  /\ ~ corrections[1].reverted
  /\ corrections[1].alternateSelected = <<1>>
  /\ corrections[1].applied = <<"b", "b">>
  /\ changeLog[4].text = <<"a">>
  /\ getText(quill, 0, 2) = <<"b", "b">>

\* C18: a call that throws leaves the text, the version and the change log
\* exactly as they were before the call.
C18_FailedCallChangesNothing ==
  [][(ret'.thrown /\ now' = now) => UNCHANGED <<quill, version, changeLog>>]_vars

----------------------------------------------------------------------------
(* Control bus *)

\* C19: the promises returned by run carry strictly increasing requestIds, a
\* run posts its envelope with the new requestId, above every earlier one, and
\* a response envelope that finds handlers under its requestId settles the
\* promise of exactly that request, by its success flag, and removes exactly
\* those handlers, whatever other requests are pending.
C19_RequestIdsCorrelate ==
  [][/\ \A i \in DOMAIN futures', j \in DOMAIN futures' :
          i < j => futures'[i].requestId < futures'[j].requestId
     /\ Called({"run"}) =>
          /\ Len(futures') = Len(futures) + 1
          /\ \A k \in DOMAIN futures : futures[k].requestId < Last(futures').requestId
          /\ \E data \in toWorker' \ toWorker : data.requestId = Last(futures').requestId
     /\ \A data \in toDirector :
          (HandleControlResponse(data) /\ listening /\ data.requestId \in pendingRequests)
            => /\ pendingRequests' = pendingRequests \ {data.requestId}
               /\ \A k \in DOMAIN futures :
                    IF futures[k].requestId = data.requestId
                    THEN /\ futures[k].state = "pending"
                         /\ futures'[k].state =
                              (IF data.success THEN "resolved" ELSE "rejected")
                         /\ data.success => futures'[k].value = data.result
                    ELSE futures'[k] = futures[k]]_vars

\* the second request is resolved by its response while the first is pending
C19_Witness ==
  /\ Len(futures) = 2
  /\ futures[1].state = "pending"
  /\ futures[2].state = "resolved"
  /\ futures[2].requestId = 2
  /\ pendingRequests = {1}
  /\ ret = Returned("handleResponse", "ok", FALSE)

\* C20: resolve or reject is called at most once on the promise of a run, and
\* a promise whose timeout has run is settled: by its response if that came
\* first, by the timeout otherwise.
C20_SettledExactlyOnce ==
  \A k \in DOMAIN futures :
    /\ futures[k].settles <= 1
    /\ (futures[k].state # "pending") <=> (futures[k].settles = 1)
    /\ (~ \E timer \in busTimers : timer.requestId = futures[k].requestId)
         => futures[k].state # "pending"

\* a requestId no run has issued, or one whose promise is settled already
UnknownOrResolved(requestId) ==
  \A k \in DOMAIN futures :
    futures[k].requestId = requestId => futures[k].state # "pending"

\* C21: a response envelope whose requestId was never issued, or whose promise
\* is settled already (a duplicate, or a response that comes after the timeout),
\* is dropped: handleResponse returns without throwing, no promise is settled
\* or touched, and the table of pending requests is unchanged.
C21_UnknownResponseDropped ==
  [][\A data \in toDirector \cup ResponseEnvelopes :
       ((HandleControlResponse(data) \/ HandleResponse(data))
          /\ UnknownOrResolved(data.requestId))
         => /\ futures' = futures
            /\ pendingRequests' = pendingRequests
            /\ ~ ret'.thrown]_vars

\* the response of the worker has been handled after the timeout of its
\* request rejected the promise
C21_Witness ==
  /\ Len(futures) = 1
  /\ futures[1].state = "rejected"
  /\ futures[1].value = CommandTimeoutMsg(futures[1].command)
  /\ futures[1].settles = 1
  /\ toWorker = {}
  /\ toDirector = {}
  /\ listening
  /\ ret = Returned("handleResponse", "ok", FALSE)

\* C22: destroy rejects every request that is pending when it is called: after
\* the call no promise that was pending is pending still.
C22_DestroyRejectsPending ==
  [][Called({"destroy"}) =>
       \A k \in DOMAIN futures :
         futures[k].state = "pending" => futures'[k].state = "rejected"]_vars

\* C23: a command that throws is answered with one response envelope carrying
\* the requestId of the request, success false and the message of the error, a
\* command that returns with success true and its result; the handler itself
\* never throws, and every request that reaches the worker can still be
\* handled, whatever commands failed before it.
C23_ErrorBecomesResponse ==
  /\ [][\A data \in toWorker, success \in BOOLEAN, r \in Results, e \in Errors :
          HandleControlMessage(data, success, r, e)
            => /\ \E response \in toDirector' :
                    /\ toDirector' \ toDirector = {response}
                    /\ response.type = "woolf-control-response"
                    /\ response.requestId = data.requestId
                    /\ response.success = success
                    /\ success => response.result = r
                    /\ ~ success => response.error = e
               /\ ~ ret'.thrown]_vars
  /\ [](\A data \in toWorker :
          /\ ENABLED HandleControlMessage(data, TRUE, "done", "")
          /\ ENABLED HandleControlMessage(data, FALSE, "done", "Command failed"))

\* the second request has been answered with a result after the first, whose
\* command threw, was answered and rejected with the message of the error
C23_Witness ==
  /\ Len(futures) = 2
  /\ futures[1].state = "rejected"
  /\ futures[1].value = "Command failed"
  /\ futures[2].state = "pending"
  /\ toWorker = {}
  /\ \E response \in toDirector :
       /\ toDirector = {response}
       /\ response.requestId = 2
       /\ response.success
  /\ ret = Returned("handleControlMessage", "ok", FALSE)

----------------------------------------------------------------------------
(* Event streams and change subscriptions *)

\* the events posted to the window of stream streamId, in the order posted
eventsOf(events, streamId) == SelectSeq(events, LAMBDA e : e.streamId = streamId)

\* C24: a registered stream has been sent the initial state first and then, in
\* the order of the log, every change logged since (every change of the
\* filter's user when the stream has a filter); registerEventStream does not
\* throw; and a stream that is unregistered is sent nothing more.
C24_StreamSnapshotThenChanges ==
  /\ [](\A k \in DOMAIN eventStreams :
          LET mine == eventsOf(posted, eventStreams[k].streamId)
              userId == eventStreams[k].filters.userId
          IN  /\ mine # <<>>
              /\ mine[1].type = "woolf-initial-state"
              /\ \A j \in 2..Len(mine) : mine[j].type = "woolf-change-event"
              /\ [j \in 1..(Len(mine) - 1) |-> mine[j + 1].change]
                   = SelectSeq(changeLog, LAMBDA change :
                       /\ change.version > mine[1].state.version
                       /\ userId # undefined => change.userId = userId))
  /\ [][/\ Called({"registerEventStream"}) => ~ ret'.thrown
        /\ \A id \in 1..streamIdCounter :
             getStream(eventStreams', id) = null
               => eventsOf(posted', id) = eventsOf(posted, id)]_vars

\* C25: the change log never holds more than 1000 entries, and the entries it
\* holds are the most recent ones: their versions run without a gap up to the
\* version of the document, so what was evicted is the oldest.
C25_LogCapped ==
  /\ Len(changeLog) <= 1000
  /\ Len(changeLog) = Min(version, 1000)
  /\ \A k \in DOMAIN changeLog : changeLog[k].version = version - Len(changeLog) + k

\* the log is full after more mutations than it can hold
C25_Witness ==
  /\ Len(changeLog) = 1000
  /\ version = 1002
  /\ changeLog[1].version = 3

\* the versions a client may have seen last: the first ones, the ones around
\* the oldest entry a full log still holds, and the current ones
SinceVersions ==
  {v \in {0, 1, version - 1000 - 1, version - 1000, version - 1000 + 1,
          version - 1, version, version + 1} : v >= 0}

\* C26 as stated: getChangesSince(v) returns every record made with a version
\* above v, in ascending order of version: the records of versions v+1 up to
\* the version of the document, none missing.
C26_ChangesSinceMissesNone ==
  \A v \in SinceVersions :
    LET since == getChangesSince(changeLog, v) IN
    /\ Len(since) = (IF version > v THEN version - v ELSE 0)
    /\ \A j \in DOMAIN since : since[j].version = v + j

\* C26, amended: getChangesSince(v) returns, in ascending order of version, the
\* records with a version above v that the log still holds: the records of the
\* versions above v and above version - 1000; none is missing as long as no
\* more than 1000 changes were made since v.
C26_ChangesSinceRetained ==
  \A v \in SinceVersions :
    LET since == getChangesSince(changeLog, v)
        oldest == IF version - 1000 > v THEN version - 1000 ELSE v
    IN  /\ Len(since) = (IF version > oldest THEN version - oldest ELSE 0)
        /\ \A j \in DOMAIN since :
             /\ since[j].version = oldest + j
             /\ since[j] = changeLog[Len(changeLog) - Len(since) + j]
        /\ version - v <= 1000 => Len(since) = (IF version > v THEN version - v ELSE 0)

\* a client that saw version 0 last asks after 1002 changes and gets the 1000
\* records from version 3 on
C26_Witness ==
  /\ version = 1002
  /\ Len(getChangesSince(changeLog, 0)) = 1000
  /\ getChangesSince(changeLog, 0)[1].version = 3
  /\ Len(getChangesSince(changeLog, 1000)) = 2

\* C27: getHistory(limit) returns the last limit entries of the change log, or
\* the whole log when it holds fewer, in the order of the log, for every
\* limit from 0 on: never more than limit entries.
C27_HistoryMostRecent ==
  \A limit \in Limits :
    LET history == getHistory(changeLog, limit) IN
    /\ Len(history) = Min(limit, Len(changeLog))
    /\ \A j \in DOMAIN history :
         history[j] = changeLog[Len(changeLog) - Len(history) + j]

\* C28: a mutation that logs a record calls the callback of every subscriber
\* once with that record, in the order the subscribers registered, also after
\* a callback that throws; the record is the last of the log and carries the
\* new version, and the mutation returns without throwing.
C28_EverySubscriberNotified ==
  [][(Called({"insertAt"}) /\ version' = version + 1)
       => /\ ~ ret'.thrown
          /\ changeLog' = Append(changeLog, Last(changeLog'))
          /\ Last(changeLog').version = version'
          /\ delivered' = delivered \o
               [k \in 1..Len(changeSubscribers) |->
                  [subscriberId |-> changeSubscribers[k].subscriberId,
                   change |-> Last(changeLog')]]
          /\ \A k \in 1..(Len(changeSubscribers) - 1) :
               changeSubscribers[k].subscriberId < changeSubscribers[k + 1].subscriberId]_vars

\* the second subscriber has been called with the record after the first
\* subscriber, whose callback throws
C28_Witness ==
  /\ Len(changeSubscribers) = 2
  /\ changeSubscribers[1].callback.kind = "throws"
  /\ changeSubscribers[2].callback.kind = "records"
  /\ version = 1
  /\ Len(changeLog) = 1
  /\ delivered = <<[subscriberId |-> 1, change |-> changeLog[1]],
                   [subscriberId |-> 2, change |-> changeLog[1]]>>
  /\ ret = Returned("insertAt", "ok", FALSE)

\* C29: the correction store never holds more than 100 corrections, and the
\* ones it holds are the most recent: their correctionIds run without a gap up
\* to the last one given out, so what was evicted is the oldest.
C29_CorrectionsCapped ==
  /\ Len(corrections) <= 100
  /\ Len(corrections) = Min(correctionCounter, 100)
  /\ \A k \in DOMAIN corrections :
       corrections[k].correctionId = correctionCounter - Len(corrections) + k

\* the store is full after more corrections than it can hold
C29_Witness ==
  /\ Len(corrections) = 100
  /\ correctionCounter = 102
  /\ corrections[1].correctionId = 3
  /\ ret = Returned("applyQuickCorrection", "ok", FALSE)

----------------------------------------------------------------------------
(* Calls by id *)

HasId(entries, field, id) == \E k \in DOMAIN entries : entries[k][field] = id

NotFoundMsgs ==
  {LockNotFoundMsg, SuggestionNotFoundMsg}
    \cup {CorrectionNotFoundMsg(id) : id \in 1..(MaxIdCalls + 1)}

\* the call reports a not-found error, thrown or returned, and nothing changes
NotFoundAndUnchanged ==
  /\ ret'.status \in NotFoundMsgs
  /\ UNCHANGED <<quill, version, changeLog, rangeLocks, suggestions, corrections,
                 annotations>>

\* C30: a call that names a lock, a suggestion, a correction or an annotation
\* by an id that is not in the table fails with a not-found error and changes
\* nothing: unlockRange, acceptSuggestion, rejectSuggestion, revertCorrection,
\* switchToAlternate and deleteAnnotation.
C30_UnknownIdNotFound ==
  [][\A id \in 1..(MaxIdCalls + 1) :
       /\ (~ HasId(rangeLocks, "lockId", id) /\ \E u \in Users : UnlockRange(id, u))
            => NotFoundAndUnchanged
       /\ (~ HasId(suggestions, "suggestionId", id)
             /\ \E u \in Users, r \in Reasons :
                  AcceptSuggestion(id, u) \/ RejectSuggestion(id, u, r))
            => NotFoundAndUnchanged
       /\ (~ HasId(corrections, "correctionId", id)
             /\ \E u \in Users, k \in 0..(Len(Alternates) - 1) :
                  RevertCorrection(id, u) \/ SwitchToAlternate(id, k, u))
            => NotFoundAndUnchanged
       /\ (~ HasId(annotations, "annotationId", id) /\ DeleteAnnotation(id))
            => NotFoundAndUnchanged]_vars

----------------------------------------------------------------------------
(* Commands through the handler *)

\* the user id a command's parameters supply
Supplied(params) == CHOOSE u \in Users : \E k \in UserKeys : params[k] = u

\* C31: a command is carried out in the name of the user id its parameters
\* supply: a lock made by lock-range belongs to that user and a record made by
\* insert-at names that user; and an insert-at into a range covered by a live
\* lock that belongs to another user than the one the insert-at supplies is
\* rejected with 'Range is locked' and changes nothing.
C31_HandlerAttributesUser ==
  [][\A params \in CommandParams :
       /\ (HandlerLockRange(params) /\ ~ ret'.thrown)
            => Last(rangeLocks').userId = Supplied(params)
       /\ (HandlerInsertAt(params) /\ ~ ret'.thrown)
            => Last(changeLog').userId = Supplied(params)
       /\ (HandlerInsertAt(params)
             /\ LiveLockOfOther(Supplied(params), params["index"], Len(params["text"])))
            => Rejected]_vars

----------------------------------------------------------------------------
(* History *)

\* C32: revertToVersion to a version before the current one returns without
\* throwing and makes a new version: the version grows, and the entries the
\* change log held stay in it, in their order.
C32_RevertMakesNewVersion ==
  [][\A targetVersion \in 0..MaxRevertVersion :
       (RevertToVersion(targetVersion) /\ targetVersion < version)
         => /\ ~ ret'.thrown
            /\ version' > version
            /\ Len(changeLog') >= Len(changeLog)
            /\ SubSeq(changeLog', 1, Len(changeLog)) = changeLog]_vars

----------------------------------------------------------------------------
(* Subscriptions with a filter *)

\* C33: a change is delivered to exactly the subscribers that are registered
\* when it is made and that asked for all changes or for the changes of the
\* user who made it: a subscriber with a userId filter gets no change of
\* another user, and a subscriber that has unsubscribed gets no change at all.
C33_FilteredSubscribers ==
  [][(Called({"insertAt"}) /\ version' = version + 1)
       => delivered' = delivered \o
            [k \in 1..Len(SelectSeq(changeSubscribers, LAMBDA sub :
                            sub.callback.wants \in {undefined, Last(changeLog').userId})) |->
               [subscriberId |->
                  SelectSeq(changeSubscribers, LAMBDA sub :
                    sub.callback.wants \in {undefined, Last(changeLog').userId})[k].subscriberId,
                change |-> Last(changeLog')]]]_vars

----------------------------------------------------------------------------
(* The expiry timer of a lock *)

\* the lock that the lockRange call which set the timer put into the table
OwnLock(lock, timer) ==
  /\ lock.lockId = timer.lockId
  /\ lock.userId = timer.userId
  /\ lock.expiresAt = timer.due

\* C34: whenever the expiry timer of a lock fires, in whatever order timers,
\* unlocks, locks and insertions interleave, it throws nothing, changes nothing
\* but the lock table, and every lock of the table other than its own stays; if
\* its own lock was released before, the table stays as it is.
C34_TimerRemovesOnlyOwnLock ==
  [][\A timer \in timers :
       LockTimer(timer) =>
         /\ ~ ret'.thrown
         /\ UNCHANGED <<docVars, lockCounter, suggVars, txnVars, corrVars>>
         /\ rangeLocks' = SelectSeq(rangeLocks, LAMBDA lock : ~ OwnLock(lock, timer))
         /\ ~ Held(timer.lockId) =>
              (rangeLocks' = rangeLocks /\ ret'.status = LockNotFoundMsg)]_vars

\* the timer of a lock that its owner had released fired while the lock of
\* another user was held, and that lock is still held
C34_Witness ==
  /\ ret = Returned("lockTimer", LockNotFoundMsg, FALSE)
  /\ Len(rangeLocks) = 1
  /\ rangeLocks[1].lockId = 2
  /\ rangeLocks[1].userId = "user2"
  /\ \A timer \in timers : timer.lockId # 1

----------------------------------------------------------------------------
(* Locks of different users *)

\* C35: in every reachable state, whatever locks, unlocks, timer expiries and
\* mutations led to it, no two locks of the table that are held by different
\* users cover a common position.
C35_LocksOfUsersDisjoint ==
  \A j \in DOMAIN rangeLocks, k \in DOMAIN rangeLocks :
    rangeLocks[j].userId # rangeLocks[k].userId =>
      ~ Intersects(rangeLocks[j].range.index, rangeLocks[j].range.length,
                   rangeLocks[k].range)

\* two users hold locks side by side, after a lock over both ranges was refused
C35_Witness ==
  /\ Len(rangeLocks) = 2
  /\ rangeLocks[1].userId = "user1"
  /\ rangeLocks[1].range = [index |-> 1, length |-> 2]
  /\ rangeLocks[2].userId = "user2"
  /\ rangeLocks[2].range = [index |-> 0, length |-> 1]
  /\ ret = Returned("lockRange", AlreadyLockedMsg("user1"), TRUE)

----------------------------------------------------------------------------
(* The change log as the end of the history *)

\* the versions of the log go up by one from entry to entry and end at the
\* version of the document
EndsAtVersion(log, v) ==
  /\ \A k \in 1..(Len(log) - 1) : log[k + 1].version = log[k].version + 1
  /\ log # <<>> => Last(log).version = v

\* C36: every step, a rejected call included, either leaves version and log
\* as they are, or advances the version by one and appends one entry of that
\* version, dropping at most the oldest entry; so the log is always the last
\* part of the history of mutations, its versions go up by exactly one from
\* entry to entry, and its last entry carries the version of the document,
\* also once entries were evicted.
C36_LogIsSuffixOfHistory ==
  [][/\ \/ (version' = version /\ changeLog' = changeLog)
        \/ /\ version' = version + 1
           /\ changeLog' # <<>>
           /\ \E dropped \in 0..1 :
                SubSeq(changeLog', 1, Len(changeLog') - 1)
                  = SubSeq(changeLog, 1 + dropped, Len(changeLog))
     /\ EndsAtVersion(changeLog', version')]_vars

\* the log has evicted entries, holds typed changes, and the call made last
\* was rejected by a lock
C36_Witness ==
  /\ version > maxLogSize
  /\ Len(changeLog) = maxLogSize
  /\ changeLog[1].version = version - maxLogSize + 1
  /\ Last(changeLog).type = "external"
  /\ ret = Returned("insertAt", RangeLockedMsg, TRUE)

----------------------------------------------------------------------------
(* The director of the event stream *)

\* C37: when the director handles a woolf-stream-registered message, every
\* promise of a run request that was pending stays pending (it is settled only
\* by its own response or timeout), and its request stays in the table of
\* pending requests; only a pending registerStream request is settled.
C37_AckSettlesOnlyRegistration ==
  [][(ret'.op = "handleMessage" /\ ret'.status = "woolf-stream-registered")
       => \A k \in DOMAIN director.promises :
            (director.promises[k].kind = "run" /\ director.promises[k].state = "pending")
              => /\ director'.promises[k].state = "pending"
                 /\ \E j \in DOMAIN director'.pendingRequests :
                      director'.pendingRequests[j] = director.promises[k].requestId]_vars

----------------------------------------------------------------------------
(* Acceptance of a suggestion over a locked range *)

\* C38: when acceptSuggestion of a pending suggestion throws because its range
\* is locked by another user, the suggestion is as it was (pending, nobody
\* recorded as accepting), text, version and log are unchanged, and the same
\* accept succeeds once the locks are gone.
C38_FailedAcceptLeavesPending ==
  [][(Called({"acceptSuggestion"}) /\ ret'.status = RangeLockedMsg)
       => /\ ret'.thrown
          /\ suggestions' = suggestions
          /\ UNCHANGED docVars
          /\ \E k \in DOMAIN suggestions', u \in Users :
               LET s == suggestions'[k] IN
               /\ s.status = "pending"
               /\ s.acceptedBy = undefined
               /\ replaceRange(Doc', now', s.range.index, s.range.length, s.newText, u).err
                    = RangeLockedMsg
               /\ replaceRange([Doc' EXCEPT !.rangeLocks = <<>>], now', s.range.index,
                               s.range.length, s.newText, u).err = "ok"
          /\ \A k \in DOMAIN suggestions' :
               suggestions'[k].status = "pending" => suggestions'[k].acceptedBy = undefined]_vars

\* user2's accept of the pending suggestion was rejected by the lock of user1
C38_Witness ==
  /\ ret = Returned("acceptSuggestion", RangeLockedMsg, TRUE)
  /\ Len(suggestions) = 1
  /\ suggestions[1].status = "pending"
  /\ suggestions[1].acceptedBy = undefined
  /\ rangeLocks # <<>>
  /\ version = 0

\* the accept succeeded after the lock that had covered the range was released
C38_LaterAccepted ==
  /\ ret = Returned("acceptSuggestion", "ok", FALSE)
  /\ lockCounter = 1
  /\ rangeLocks = <<>>
  /\ suggestions[1].status = "accepted"

----------------------------------------------------------------------------
(* One response per request *)

\* C39: every time the worker handles a woolf-control request, whether the
\* command returns or throws, it takes that one request and posts one envelope,
\* which carries the requestId of the request; so no envelope on its way to the
\* director answers a request that was not issued or that the worker has not
\* handled yet, and no request has two envelopes.
C39_OneResponsePerRequest ==
  /\ [](\A response \in toDirector :
          /\ response.requestId \in 1..requestCounter
          /\ \A data \in toWorker : data.requestId # response.requestId
          /\ \A other \in toDirector :
               other.requestId = response.requestId => other = response)
  /\ [][Called({"handleControlMessage"})
          => /\ Cardinality(toWorker \ toWorker') = 1
             /\ Cardinality(toDirector' \ toDirector) = 1
             /\ {data.requestId : data \in toWorker \ toWorker'}
                  = {response.requestId : response \in toDirector' \ toDirector}
             /\ toWorker' \subseteq toWorker
             /\ toDirector \subseteq toDirector']_vars

\* both requests are handled, the first threw and the second returned, and the
\* two envelopes are on their way
C39_Witness ==
  /\ requestCounter = 2
  /\ toWorker = {}
  /\ Cardinality(toDirector) = 2
  /\ \E response \in toDirector : response.requestId = 1 /\ ~ response.success
  /\ \E response \in toDirector : response.requestId = 2 /\ response.success

\* the same for the worker of the event stream: handling a woolf-control
\* request takes that request and posts one woolf-response with its requestId
C39_StreamOneResponse ==
  [][(ret'.op = "streamHandleMessage" /\ ret'.status = "woolf-control")
       => /\ Cardinality(director.toWorker \ director'.toWorker) = 1
          /\ Cardinality(director'.inbox \ director.inbox) = 1
          /\ {data.requestId : data \in director.toWorker \ director'.toWorker}
               = {response.requestId : response \in director'.inbox \ director.inbox}
          /\ \A response \in director'.inbox \ director.inbox :
               response.type = "woolf-response"]_vars

----------------------------------------------------------------------------
(* The changes and the id of a quick correction *)

\* C40: an applyQuickCorrection that succeeds advances the version by exactly
\* 2 and appends exactly two entries to the change log, a delete of version + 1
\* and then an insert of version + 2; the record it stores carries the version
\* of the document after the insert and an id that is one above the id of the
\* call before and above the id of every record stored, also when the oldest
\* records have been evicted.
C40_CorrectionIsTwoChanges ==
  [][(Called({"applyQuickCorrection"}) /\ ret'.status = "ok")
       => /\ version' = version + 2
          /\ Len(changeLog') = Len(changeLog) + 2
          /\ SubSeq(changeLog', 1, Len(changeLog)) = changeLog
          /\ changeLog'[Len(changeLog) + 1].type = "delete"
          /\ changeLog'[Len(changeLog) + 1].version = version + 1
          /\ changeLog'[Len(changeLog) + 2].type = "insert"
          /\ changeLog'[Len(changeLog) + 2].version = version + 2
          /\ Last(corrections').version = version'
          /\ Last(corrections').correctionId = correctionCounter + 1
          /\ correctionCounter' = correctionCounter + 1
          /\ \A k \in DOMAIN corrections :
               corrections[k].correctionId < Last(corrections').correctionId
          /\ \A j \in DOMAIN corrections', k \in DOMAIN corrections' :
               j < k => corrections'[j].correctionId < corrections'[k].correctionId]_vars

\* a correction applied after the two oldest records were evicted
C40_Witness ==
  /\ ret = Returned("applyQuickCorrection", "ok", FALSE)
  /\ correctionCounter = maxCorrections + 2
  /\ version = 2 * correctionCounter
  /\ Last(corrections).correctionId = correctionCounter
  /\ Last(corrections).version = version
  /\ corrections[1].correctionId = 3
  /\ Last(changeLog).type = "insert"
  /\ changeLog[Len(changeLog) - 1].type = "delete"

----------------------------------------------------------------------------
(* Suggestions *)

Pending(suggestionId) ==
  \E k \in DOMAIN suggestions :
    suggestions[k].suggestionId = suggestionId /\ suggestions[k].status = "pending"

Decided(suggestionId) ==
  \E k \in DOMAIN suggestions :
    suggestions[k].suggestionId = suggestionId /\ suggestions[k].status # "pending"

\* C8: a suggestion that is accepted or rejected never changes again, and
\* accept or reject on it throws and leaves the suggestions and the text alone.
C8_SuggestionTerminal ==
  [][/\ \A k \in DOMAIN suggestions :
          suggestions[k].status # "pending" => suggestions'[k] = suggestions[k]
     /\ \A id \in 1..MaxSuggestions, u \in Users, r \in Reasons :
          ((AcceptSuggestion(id, u) \/ RejectSuggestion(id, u, r)) /\ Decided(id))
            => (ret'.thrown /\ UNCHANGED <<suggestions, quill>>)]_vars

\* C9: accepting a pending suggestion succeeds with one replace: version + 1,
\* the text at its range reads newText, status accepted by the accepting user;
\* a second accept, and a reject after the accept, throw.
C9_AcceptOnce ==
  [][\A k \in DOMAIN suggestions, u \in Users :
       LET s == suggestions[k] IN
       /\ (AcceptSuggestion(s.suggestionId, u) /\ s.status = "pending")
            => /\ ret' = Returned("acceptSuggestion", "ok", FALSE)
               /\ version' = version + 1
               /\ getText(quill', s.range.index, Len(s.newText)) = s.newText
               /\ suggestions'[k] = [s EXCEPT !.status = "accepted", !.acceptedBy = u]
       /\ (AcceptSuggestion(s.suggestionId, u) /\ s.status # "pending")
            => ret'.thrown
       /\ \A r \in Reasons :
            (RejectSuggestion(s.suggestionId, u, r) /\ s.status = "accepted")
              => ret'.thrown]_vars

====
